---------------------------- MODULE Spec2Model ----------------------------
(***************************************************************************)
(* The medical bill pipeline and its command line:                         *)
(*   - GoverningAgent (agents/governing_agent.py): the execution monitor,  *)
(*     its event log, start/end timestamps, generate_report() and          *)
(*     print_report();                                                     *)
(*   - MedicalBillOrchestrator.process_bill                                *)
(*     (orchestrator/medical_bill_orchestrator.py): the fixed three-stage  *)
(*     pipeline with its try / except Exception / finally structure;       *)
(*   - AgentWrapper.run (orchestrator/agent_wrapper.py): the conversion of *)
(*     a stage's input into the text handed to the runner;                 *)
(*   - main() and run_session (main.py): configuration, the shared         *)
(*     session, the summary and follow-up turns, the interactive loop;     *)
(*   - the capability client's retry options (agent_wrapper.py,            *)
(*     bill_extraction.py);                                                *)
(*   - ConversationalAgent (orchestrator/conversational_agent.py): chat    *)
(*     and reset_session.                                                  *)
(*                                                                         *)
(* The specifications share the variables:                                 *)
(*   Spec              calls of process_bill on one orchestrator instance; *)
(*                     the calls are coroutines of one event loop, so a    *)
(*                     call runs alone between two of its awaits;          *)
(*   SpecMonitor       a client calling the GoverningAgent's methods       *)
(*                     directly, in any order;                             *)
(*   SpecMonitorPrint  the same client, print_report() included;           *)
(*   SpecMonitorLong   one workflow with more events than print_report()   *)
(*                     shows;                                              *)
(*   SpecMain          one run of the program;                             *)
(*   SpecClient        one request of a stage's capability client;         *)
(*   SpecChat          chat and reset_session calls on one chatbot.        *)
(***************************************************************************)
EXTENDS Integers, Sequences, FiniteSets, TLC

\* ------------------------------------------------------------------ bounds
\* Largest reading of the clock (datetime.now()).
MaxTime == 1
\* Most events a direct client of the monitor logs (SpecMonitor).
MaxLog == 3
\* The process_bill calls made on the one orchestrator instance: a call and
\* another one that follows it or is interleaved with it at its awaits.
Runs == {1, 2}

\* ------------------------------------------------------------ Python values
NoneVal == [kind |-> "none"]

Str(t) == [kind |-> "str", text |-> t]

\* The list of events Runner.run_debug returns, one text per event.
EventList(items) == [kind |-> "events", items |-> items]

\* A reference to the list object self.execution_log (not a copy of it).
LogRef == [kind |-> "ref", to |-> "execution_log"]

DateTime(t) == [kind |-> "datetime", t |-> t]

\* Python truthiness of the values used in conditions.
Truthy(v) ==
    CASE v.kind = "none" -> FALSE
      [] v.kind = "str" -> v.text # ""
      [] v.kind = "events" -> v.items # <<>>
      [] OTHER -> TRUE

RECURSIVE JoinItems(_)
JoinItems(items) ==
    IF items = <<>> THEN ""
    ELSE IF Len(items) = 1 THEN "'" \o items[1] \o "'"
    ELSE "'" \o items[1] \o "', " \o JoinItems(Tail(items))

\* str(v)
PyStr(v) ==
    CASE v.kind = "str" -> v.text
      [] v.kind = "events" -> "[" \o JoinItems(v.items) \o "]"
      [] v.kind = "none" -> "None"
      [] v.kind = "exception" -> v.msg
      [] OTHER -> "<object>"

\* len(v) of a str
PyLen(v) == Len(v.text)

\* dict helpers: a dict is a function on its keys
SetKey(d, k, v) == [x \in (DOMAIN d) \cup {k} |-> IF x = k THEN v ELSE d[x]]

HasKey(d, k) == k \in DOMAIN d

\* results["stages"][key] = {"status": ..., "data": ...} on an insertion-ordered dict
StagesSet(stages, key, entry) ==
    IF \E i \in 1 .. Len(stages) : stages[i].key = key
    THEN [i \in 1 .. Len(stages) |->
            IF stages[i].key = key
            THEN [key |-> key, status |-> entry.status, data |-> entry.data]
            ELSE stages[i]]
    ELSE Append(stages, [key |-> key, status |-> entry.status, data |-> entry.data])

\* ------------------------------------------------------------------- inputs
\* Paths a caller passes.
Paths == {"bill.png", "missing.pdf"}

\* response.text of the extraction call
BillTexts == {"", "{bill}"}

\* What Runner.run_debug returns to a stage
RunnerResults == {EventList(<<>>), EventList(<<"out">>)}

\* str(e) of the exceptions the capability raises (asyncio.TimeoutError() has "")
Msgs == {"", "boom"}

AgentNames == {"BillExtraction", "Orchestrator"}

Statuses == {"STARTED", "SUCCESS", "FAILED"}

\* ---------------------------------------------------------------- variables
VARIABLES
    execution_log,  \* GoverningAgent.execution_log
    start_time,     \* GoverningAgent.start_time
    end_time,       \* GoverningAgent.end_time
    clock,          \* what datetime.now() reads
    last_report,    \* what the latest direct generate_report() call returned
    pc,             \* pc[r]: where call r of process_bill stands
    current,        \* the call that is running (0: the event loop is idle)
    results,        \* results[r]: the dict process_bill builds and returns
    frame,          \* frame[r]: the locals of call r
    hist,           \* hist[r]: what call r has done so far, in order (history)
    stdout,         \* what the latest print_report() call wrote to standard output
    env,            \* the process environment and the files main() looks at
    main,           \* the locals of main() and where it stands
    sessions,       \* the session store: the stored events of each session key
    rs,             \* the locals of the run_session call in progress
    client,         \* the capability client's request in progress
    chatbot         \* the ConversationalAgent: its sessions dict and the chat call in progress

monitorVars == <<execution_log, start_time, end_time>>

runVars == <<pc, current, results, frame, hist>>

\* The paths that exist on disk (Path.exists()).
ExistingFiles == env.files

\* What the monitor and process_bill never touch.
extVars == <<stdout, env, main, sessions, rs, client, chatbot>>

vars == <<execution_log, start_time, end_time, clock, last_report,
          pc, current, results, frame, hist, stdout, env, main, sessions, rs, client,
          chatbot>>

\* ------------------------------------------------------------ GoverningAgent
\* datetime.now().isoformat()
IsoFormat(t) == "T" \o ToString(t)

\* The event put in front of the log (list.insert(0, event)).
LogAgentExecutionFront(log, agent_name, status, details) ==
    <<[timestamp |-> IsoFormat(clock), agent |-> agent_name,
       status |-> status, details |-> details]>> \o log

\* log_agent_execution: the log with the event appended
LogAgentExecution(log, agent_name, status, details) ==
    Append(log, [timestamp |-> IsoFormat(clock), agent |-> agent_name,
                 status |-> status, details |-> details])

\* start_workflow()
StartWorkflow == start_time' = DateTime(clock)

\* end_workflow()
EndWorkflow == end_time' = DateTime(clock)

\* status_counts: for each status in the log, the number of its events
StatusCounts(log) ==
    [s \in {log[i].status : i \in 1 .. Len(log)} |->
        Cardinality({i \in 1 .. Len(log) : log[i].status = s})]

\* status_counts.get('SUCCESS', 0)
SuccessCount(log) ==
    IF "SUCCESS" \in DOMAIN StatusCounts(log) THEN StatusCounts(log)["SUCCESS"] ELSE 0

\* num/den cut off instead of rounded
RoundDown(num, den) == num \div den

\* round-half-even of num/den (den > 0), as "%.1f" rounds the value it prints
RoundHalfEven(num, den) ==
    LET q == num \div den
        rem == num % den
    IN  IF 2 * rem > den THEN q + 1
        ELSE IF 2 * rem < den THEN q
        ELSE IF q % 2 = 0 THEN q ELSE q + 1

\* f"{x:.1f}%" for x = tenths / 10
FormatTenths(tenths) ==
    ToString(tenths \div 10) \o "." \o ToString(tenths % 10) \o "%"

\* A success rate that reads 0.0% on an empty log
SuccessRateZero(log) ==
    IF log # <<>>
    THEN FormatTenths(RoundHalfEven(SuccessCount(log) * 1000, Len(log)))
    ELSE "0.0%"

\* f"{(status_counts.get('SUCCESS', 0) / len(log) * 100):.1f}%" if log else "N/A"
SuccessRate(log) ==
    IF log # <<>>
    THEN FormatTenths(RoundHalfEven(SuccessCount(log) * 1000, Len(log)))
    ELSE "N/A"

\* (self.end_time - self.start_time).total_seconds() if self.end_time else 0
Duration(st, et) == IF Truthy(et) THEN et.t - st.t ELSE 0

\* generate_report()
GenerateReport(log, st, et) ==
    IF ~Truthy(st)
    THEN [status |-> "No workflow executed"]
    ELSE [workflow_duration_seconds |-> Duration(st, et),
          total_events |-> Len(log),
          agents_executed |-> Cardinality({log[i].agent : i \in 1 .. Len(log)}),
          agent_names |-> {log[i].agent : i \in 1 .. Len(log)},
          status_summary |-> StatusCounts(log),
          execution_timeline |-> LogRef,
          success_rate |-> SuccessRate(log)]

\* A report as its holder reads it: execution_timeline is the monitor's own
\* list, so it reads as that list stands at the time of reading.
ReportRead(report, log) ==
    IF HasKey(report, "execution_timeline")
    THEN SetKey(report, "execution_timeline", log)
    ELSE report

\* ---------------------------------------------------------------- AgentWrapper
\* AgentWrapper.run: the text handed to runner.run_debug for a query
RunnerText(query) ==
    CASE query.kind = "str" -> query.text
      [] query.kind = "content" ->
            IF Len(query.parts) > 0 THEN query.parts[1] ELSE PyStr(query)
      [] OTHER -> PyStr(query)

\* --------------------------------------------------------------------- Init
Unbound == [kind |-> "unbound"]

\* An instance of a class.
Object(class) == [kind |-> "object", class |-> class]

\* The locals of a call; raised is the exception in flight, if any.
NoFrame ==
    [extracted_data |-> Unbound, charges_data |-> Unbound,
     parallel_results |-> Unbound, e |-> Unbound, raised |-> Unbound]

\* A freshly constructed orchestrator, no process_bill call made on it yet.
InitOrchestrator ==
    /\ execution_log = <<>>
    /\ start_time = NoneVal
    /\ end_time = NoneVal
    /\ clock = 0
    /\ last_report = NoneVal
    /\ pc = [r \in Runs |-> "idle"]
    /\ current = 0
    /\ results = [r \in Runs |-> Unbound]
    /\ frame = [r \in Runs |-> NoFrame]
    /\ hist = [r \in Runs |-> <<>>]
    /\ stdout = <<>>

\* main() not entered: no local bound, nothing read from standard input.
NoMain ==
    [pc |-> "start", orchestrator |-> Unbound, results |-> Unbound,
     user_input |-> Unbound, e |-> Unbound,
     lines |-> <<>>,     \* history: the lines input() has returned
     sent |-> <<>>,      \* history: the queries handed to Runner.run_async
     acqs |-> <<>>,      \* history: the sessions run_session has acquired
     printed |-> <<>>,   \* history: what main() has printed, block by block
     eof |-> FALSE]      \* history: input() raised EOFError or KeyboardInterrupt

\* No run_session call in progress.
NoRunSession == [pc |-> "idle"]

\* No request in progress in the capability client.
NoRequest == [pc |-> "idle"]

\* A ConversationalAgent as constructed (line 93: self.sessions = {}), no chat
\* call made on it yet.
NoChatbot ==
    [sessions |-> <<>>, pc |-> "idle",
     n |-> 0,            \* history: the chat calls made so far
     old |-> <<>>,       \* history: per user, the turns stored when the user was last reset
     fresh |-> {}]       \* history: the users reset and not served by default since

\* An environment with the credential set and the bill file in place.
DefaultEnv == [GOOGLE_API_KEY |-> Str("key"), files |-> {"bill.png"}]

Init ==
    /\ InitOrchestrator
    /\ env = DefaultEnv
    /\ main = NoMain
    /\ sessions = <<>>
    /\ rs = NoRunSession
    /\ client = NoRequest
    /\ chatbot = NoChatbot

\* Time passes while the event loop is idle or the running call is blocked in
\* the synchronous extraction request.
Tick ==
    /\ clock < MaxTime
    /\ IF current = 0 THEN TRUE ELSE pc[current] = "bill_extract"
    /\ clock' = clock + 1
    /\ UNCHANGED <<monitorVars, last_report, extVars, runVars>>

\* ------------------------------------------------------------- process_bill
Exception(class, msg) == [kind |-> "exception", class |-> class, msg |-> msg]

\* Classes derived from Exception: the ones `except Exception` catches.
ExceptionClasses == {"Exception", "FileNotFoundError"}

\* An except clause that names one error class only.
CaughtByExceptNarrow(exc) == exc.class = "FileNotFoundError"

\* except Exception as e
CaughtByExcept(exc) == exc.class \in ExceptionClasses

Did(r, ops) == hist' = [hist EXCEPT ![r] = @ \o ops]

\* The k-th event the step appends to the log, with the place it takes there.
OpLog(k, agent, status) ==
    [op |-> "log", idx |-> Len(execution_log) + k, agent |-> agent, status |-> status]

OpCall(stage, arg) == [op |-> "call", stage |-> stage, arg |-> arg]

OpCapability(stage, text) == [op |-> "capability", stage |-> stage, text |-> text]

OpReturn(stage, val) == [op |-> "ret", stage |-> stage, val |-> val]

OpRaise(stage) == [op |-> "raise", stage |-> stage]

OpEntry(key) == [op |-> "stage_entry", key |-> key]

\* A failure that is recorded and stepped over: the pipeline goes on with the
\* fan-out stage.
RaiseAndContinue(r, exc) ==
    /\ frame' = [frame EXCEPT ![r].e = exc]
    /\ pc' = [pc EXCEPT ![r] = "stage3"]

\* A raise inside the try block: control goes to the except clause.
Raise(r, exc) ==
    /\ frame' = [frame EXCEPT ![r].raised = exc]
    /\ pc' = [pc EXCEPT ![r] = "handler"]

\* Lines 82-88: start_workflow() and the fresh results dict.
Call(r, path) ==
    /\ current = 0
    /\ pc[r] = "idle"
    /\ current' = r
    /\ StartWorkflow
    /\ results' = [results EXCEPT ![r] =
                      [bill_file |-> path, status |-> "IN_PROGRESS", stages |-> <<>>]]
    /\ pc' = [pc EXCEPT ![r] = "stage1"]
    /\ Did(r, <<[op |-> "start_workflow", t |-> clock]>>)
    /\ UNCHANGED <<execution_log, end_time, clock, last_report, extVars, frame>>

\* Line 92 and the call of line 97.
Stage1Start(r) ==
    /\ current = r
    /\ pc[r] = "stage1"
    /\ execution_log' = LogAgentExecution(execution_log, "BillExtraction", "STARTED", "")
    /\ pc' = [pc EXCEPT ![r] = "bill_extract"]
    /\ Did(r, <<OpLog(1, "BillExtraction", "STARTED"),
                OpCall("BillExtraction", Str(results[r].bill_file))>>)
    /\ UNCHANGED <<start_time, end_time, clock, last_report, extVars, current, results, frame>>

\* BillExtractionAgent.extract, missing file: validate_file_exists raises
\* before the extraction request is made.
BillExtractNotFound(r) ==
    /\ current = r
    /\ pc[r] = "bill_extract"
    /\ results[r].bill_file \notin ExistingFiles
    /\ Raise(r, Exception("FileNotFoundError",
                          "File not found at: " \o results[r].bill_file))
    /\ Did(r, <<OpRaise("BillExtraction")>>)
    /\ UNCHANGED <<monitorVars, clock, last_report, extVars, current, results>>

\* BillExtractionAgent.extract, load_image_part fails on a file that exists
\* (it cannot be opened or converted): no extraction request is made.
BillLoadFail(r) ==
    /\ current = r
    /\ pc[r] = "bill_extract"
    /\ results[r].bill_file \in ExistingFiles
    /\ Raise(r, Exception("Exception", "cannot identify image file"))
    /\ Did(r, <<OpRaise("BillExtraction")>>)
    /\ UNCHANGED <<monitorVars, clock, last_report, extVars, current, results>>

\* BillExtractionAgent.extract, the extraction request fails (re-raised as is).
BillExtractFail(r, msg) ==
    /\ current = r
    /\ pc[r] = "bill_extract"
    /\ results[r].bill_file \in ExistingFiles
    /\ Raise(r, Exception("Exception", msg))
    /\ Did(r, <<OpCapability("BillExtraction", results[r].bill_file),
                OpRaise("BillExtraction")>>)
    /\ UNCHANGED <<monitorVars, clock, last_report, extVars, current, results>>

\* BillExtractionAgent.extract returns response.text.
BillExtractOk(r, text) ==
    /\ current = r
    /\ pc[r] = "bill_extract"
    /\ results[r].bill_file \in ExistingFiles
    /\ frame' = [frame EXCEPT ![r].extracted_data = Str(text)]
    /\ pc' = [pc EXCEPT ![r] = "stage1_done"]
    /\ Did(r, <<OpCapability("BillExtraction", results[r].bill_file),
                OpReturn("BillExtraction", Str(text))>>)
    /\ UNCHANGED <<monitorVars, clock, last_report, extVars, current, results>>

\* Lines 98-102.
Stage1Done(r) ==
    /\ current = r
    /\ pc[r] = "stage1_done"
    /\ results' = [results EXCEPT ![r].stages =
                      StagesSet(@, "bill_extraction",
                                [status |-> "SUCCESS", data |-> frame[r].extracted_data])]
    /\ execution_log' =
          LogAgentExecution(execution_log, "BillExtraction", "SUCCESS",
                            "(" \o ToString(PyLen(frame[r].extracted_data)) \o " chars)")
    /\ pc' = [pc EXCEPT ![r] = "stage2"]
    /\ Did(r, <<OpEntry("bill_extraction"), OpLog(1, "BillExtraction", "SUCCESS")>>)
    /\ UNCHANGED <<start_time, end_time, clock, last_report, extVars, current, frame>>

\* Line 105 and the call of line 110, up to the await inside AgentWrapper.run.
Stage2Start(r) ==
    /\ current = r
    /\ pc[r] = "stage2"
    /\ execution_log' = LogAgentExecution(execution_log, "ChargeExtraction", "STARTED", "")
    /\ pc' = [pc EXCEPT ![r] = "await_charge"]
    /\ current' = 0
    /\ Did(r, <<OpLog(1, "ChargeExtraction", "STARTED"),
                OpCall("ChargeExtraction", frame[r].extracted_data),
                OpCapability("ChargeExtraction", RunnerText(frame[r].extracted_data))>>)
    /\ UNCHANGED <<start_time, end_time, clock, last_report, extVars, results, frame>>

\* The await of line 110 settles with a result.
ChargeExtractOk(r, val) ==
    /\ current = 0
    /\ pc[r] = "await_charge"
    /\ current' = r
    /\ frame' = [frame EXCEPT ![r].charges_data = val]
    /\ pc' = [pc EXCEPT ![r] = "stage2_done"]
    /\ Did(r, <<OpReturn("ChargeExtraction", val)>>)
    /\ UNCHANGED <<monitorVars, clock, last_report, extVars, results>>

\* The await of line 110 settles with an exception (ChargeExtractionAgent.extract
\* logs it and re-raises it unchanged).
ChargeExtractFail(r, msg) ==
    /\ current = 0
    /\ pc[r] = "await_charge"
    /\ current' = r
    /\ Raise(r, Exception("Exception", msg))
    /\ Did(r, <<OpRaise("ChargeExtraction")>>)
    /\ UNCHANGED <<monitorVars, clock, last_report, extVars, results>>

\* A charge stage whose SUCCESS is entered in the result but not logged.
Stage2DoneUnlogged(r) ==
    /\ current = r
    /\ pc[r] = "stage2_done"
    /\ results' = [results EXCEPT ![r].stages =
                      StagesSet(@, "charge_extraction",
                                [status |-> "SUCCESS", data |-> frame[r].charges_data])]
    /\ pc' = [pc EXCEPT ![r] = "stage3"]
    /\ Did(r, <<OpEntry("charge_extraction")>>)
    /\ UNCHANGED <<monitorVars, clock, last_report, extVars, current, frame>>

\* Lines 111-115.
Stage2Done(r) ==
    /\ current = r
    /\ pc[r] = "stage2_done"
    /\ results' = [results EXCEPT ![r].stages =
                      StagesSet(@, "charge_extraction",
                                [status |-> "SUCCESS", data |-> frame[r].charges_data])]
    /\ execution_log' = LogAgentExecution(execution_log, "ChargeExtraction", "SUCCESS", "")
    /\ pc' = [pc EXCEPT ![r] = "stage3"]
    /\ Did(r, <<OpEntry("charge_extraction"), OpLog(1, "ChargeExtraction", "SUCCESS")>>)
    /\ UNCHANGED <<start_time, end_time, clock, last_report, extVars, current, frame>>

\* The fan-out stage started on the bill text instead of the charges.
Stage3StartStale(r) ==
    /\ current = r
    /\ pc[r] = "stage3"
    /\ execution_log' =
          LogAgentExecution(
            LogAgentExecution(
              LogAgentExecution(execution_log, "DuplicateAuditor", "STARTED", ""),
              "CodeAuditor", "STARTED", ""),
            "ChargeExplainer", "STARTED", "")
    /\ pc' = [pc EXCEPT ![r] = "await_parallel"]
    /\ current' = 0
    /\ Did(r, <<OpLog(1, "DuplicateAuditor", "STARTED"), OpLog(2, "CodeAuditor", "STARTED"),
                OpLog(3, "ChargeExplainer", "STARTED"),
                OpCall("Parallel", frame[r].extracted_data),
                OpCapability("Parallel", RunnerText(frame[r].extracted_data))>>)
    /\ UNCHANGED <<start_time, end_time, clock, last_report, extVars, results, frame>>

\* Lines 126-131, up to the await inside AgentWrapper.run.
Stage3Start(r) ==
    /\ current = r
    /\ pc[r] = "stage3"
    /\ execution_log' =
          LogAgentExecution(
            LogAgentExecution(
              LogAgentExecution(execution_log, "DuplicateAuditor", "STARTED", ""),
              "CodeAuditor", "STARTED", ""),
            "ChargeExplainer", "STARTED", "")
    /\ pc' = [pc EXCEPT ![r] = "await_parallel"]
    /\ current' = 0
    /\ Did(r, <<OpLog(1, "DuplicateAuditor", "STARTED"), OpLog(2, "CodeAuditor", "STARTED"),
                OpLog(3, "ChargeExplainer", "STARTED"),
                OpCall("Parallel", frame[r].charges_data),
                OpCapability("Parallel", RunnerText(frame[r].charges_data))>>)
    /\ UNCHANGED <<start_time, end_time, clock, last_report, extVars, results, frame>>

\* A fan-out member that records its own SUCCESS while the group is in flight.
ParallelOkMemberLogs(r, val) ==
    /\ current = 0
    /\ pc[r] = "await_parallel"
    /\ current' = r
    /\ frame' = [frame EXCEPT ![r].parallel_results = val]
    /\ pc' = [pc EXCEPT ![r] = "stage3_done"]
    /\ execution_log' = LogAgentExecution(execution_log, "DuplicateAuditor", "SUCCESS", "")
    /\ Did(r, <<OpLog(1, "DuplicateAuditor", "SUCCESS"), OpReturn("Parallel", val)>>)
    /\ UNCHANGED <<start_time, end_time, clock, last_report, extVars, results>>

\* The await of line 131 settles with a result.
ParallelOk(r, val) ==
    /\ current = 0
    /\ pc[r] = "await_parallel"
    /\ current' = r
    /\ frame' = [frame EXCEPT ![r].parallel_results = val]
    /\ pc' = [pc EXCEPT ![r] = "stage3_done"]
    /\ Did(r, <<OpReturn("Parallel", val)>>)
    /\ UNCHANGED <<monitorVars, clock, last_report, extVars, results>>

\* The await of line 131 settles with an exception.
ParallelFail(r, msg) ==
    /\ current = 0
    /\ pc[r] = "await_parallel"
    /\ current' = r
    /\ Raise(r, Exception("Exception", msg))
    /\ Did(r, <<OpRaise("Parallel")>>)
    /\ UNCHANGED <<monitorVars, clock, last_report, extVars, results>>

\* Lines 133-140.
Stage3Done(r) ==
    /\ current = r
    /\ pc[r] = "stage3_done"
    /\ results' = [results EXCEPT ![r].stages =
                      StagesSet(@, "parallel_analysis",
                                [status |-> "SUCCESS",
                                 data |-> Str(PyStr(frame[r].parallel_results))])]
    /\ execution_log' =
          LogAgentExecution(
            LogAgentExecution(
              LogAgentExecution(execution_log, "DuplicateAuditor", "SUCCESS", ""),
              "CodeAuditor", "SUCCESS", ""),
            "ChargeExplainer", "SUCCESS", "")
    /\ pc' = [pc EXCEPT ![r] = "complete"]
    /\ Did(r, <<OpEntry("parallel_analysis"),
                OpLog(1, "DuplicateAuditor", "SUCCESS"), OpLog(2, "CodeAuditor", "SUCCESS"),
                OpLog(3, "ChargeExplainer", "SUCCESS")>>)
    /\ UNCHANGED <<start_time, end_time, clock, last_report, extVars, current, frame>>

\* final_output set to the runner's result itself, without str().
MarkCompleteRaw(r) ==
    /\ current = r
    /\ pc[r] = "complete"
    /\ results' = [results EXCEPT ![r] =
                      SetKey(SetKey(@, "status", "COMPLETED"),
                             "final_output", frame[r].parallel_results)]
    /\ pc' = [pc EXCEPT ![r] = "finally"]
    /\ UNCHANGED <<monitorVars, clock, last_report, extVars, current, frame, hist>>

\* Lines 143-144.
MarkComplete(r) ==
    /\ current = r
    /\ pc[r] = "complete"
    /\ results' = [results EXCEPT ![r] =
                      SetKey(SetKey(@, "status", "COMPLETED"),
                             "final_output", Str(PyStr(frame[r].parallel_results)))]
    /\ pc' = [pc EXCEPT ![r] = "finally"]
    /\ UNCHANGED <<monitorVars, clock, last_report, extVars, current, frame, hist>>

\* An except clause that records the failure in the result only, not in the log.
ExceptSilent(r) ==
    /\ current = r
    /\ pc[r] = "handler"
    /\ pc' = [pc EXCEPT ![r] = "finally"]
    /\ frame' = [frame EXCEPT ![r].e = frame[r].raised, ![r].raised = Unbound]
    /\ results' = [results EXCEPT ![r] =
                      SetKey(SetKey(@, "status", "FAILED"),
                             "error", PyStr(frame[r].raised))]
    /\ UNCHANGED <<monitorVars, clock, last_report, extVars, current, hist>>

\* Lines 150-154: the except clause; an exception it does not catch stays in
\* flight through the finally block.
Except(r) ==
    /\ current = r
    /\ pc[r] = "handler"
    /\ pc' = [pc EXCEPT ![r] = "finally"]
    /\ IF CaughtByExcept(frame[r].raised)
       THEN /\ frame' = [frame EXCEPT ![r].e = frame[r].raised, ![r].raised = Unbound]
            /\ results' = [results EXCEPT ![r] =
                              SetKey(SetKey(@, "status", "FAILED"),
                                     "error", PyStr(frame[r].raised))]
            /\ execution_log' =
                  LogAgentExecution(execution_log, "Orchestrator", "FAILED",
                                    PyStr(frame[r].raised))
            /\ Did(r, <<OpLog(1, "Orchestrator", "FAILED")>>)
       ELSE UNCHANGED <<frame, results, execution_log, hist>>
    /\ UNCHANGED <<start_time, end_time, clock, last_report, extVars, current>>

\* A finally block that builds the report before it ends the workflow.
FinallyReportFirst(r) ==
    /\ current = r
    /\ pc[r] = "finally"
    /\ results' = [results EXCEPT ![r] =
                      SetKey(@, "governance_report",
                             GenerateReport(execution_log, start_time, end_time))]
    /\ EndWorkflow
    /\ pc' = [pc EXCEPT ![r] = "return"]
    /\ Did(r, <<[op |-> "generate_report", n |-> Len(execution_log), st |-> start_time],
                [op |-> "end_workflow", t |-> clock]>>)
    /\ UNCHANGED <<execution_log, start_time, clock, last_report, extVars, current, frame>>

\* Lines 156-159: end_workflow() and the report attached to the results.
Finally(r) ==
    /\ current = r
    /\ pc[r] = "finally"
    /\ EndWorkflow
    /\ results' = [results EXCEPT ![r] =
                      SetKey(@, "governance_report",
                             GenerateReport(execution_log, start_time, end_time'))]
    /\ pc' = [pc EXCEPT ![r] = "return"]
    /\ Did(r, <<[op |-> "end_workflow", t |-> clock],
                [op |-> "generate_report", n |-> Len(execution_log), st |-> start_time]>>)
    /\ UNCHANGED <<execution_log, start_time, clock, last_report, extVars, current, frame>>

\* Line 161: return results; an exception still in flight leaves the call instead.
Return(r) ==
    /\ current = r
    /\ pc[r] = "return"
    /\ current' = 0
    /\ pc' = [pc EXCEPT ![r] =
                 IF frame[r].raised = Unbound THEN "returned" ELSE "escaped"]
    /\ Did(r, <<[op |-> "return", n |-> Len(execution_log)]>>)
    /\ UNCHANGED <<monitorVars, clock, last_report, extVars, results, frame>>

Next ==
    \/ Tick
    \/ \E r \in Runs :
          \/ \E path \in Paths : Call(r, path)
          \/ Stage1Start(r)
          \/ BillExtractNotFound(r)
          \/ BillLoadFail(r)
          \/ \E msg \in Msgs : BillExtractFail(r, msg)
          \/ \E text \in BillTexts : BillExtractOk(r, text)
          \/ Stage1Done(r)
          \/ Stage2Start(r)
          \/ \E val \in RunnerResults : ChargeExtractOk(r, val)
          \/ \E msg \in Msgs : ChargeExtractFail(r, msg)
          \/ Stage2Done(r)
          \/ Stage3Start(r)
          \/ \E val \in RunnerResults : ParallelOk(r, val)
          \/ \E msg \in Msgs : ParallelFail(r, msg)
          \/ Stage3Done(r)
          \/ MarkComplete(r)
          \/ Except(r)
          \/ Finally(r)
          \/ Return(r)

Spec == Init /\ [][Next]_vars

\* ------------------------------------------- direct use of the GoverningAgent
MonStartWorkflow ==
    /\ StartWorkflow
    /\ UNCHANGED <<execution_log, end_time, clock, last_report, extVars, runVars>>

MonEndWorkflow ==
    /\ EndWorkflow
    /\ UNCHANGED <<execution_log, start_time, clock, last_report, extVars, runVars>>

MonLogAgentExecution(agent_name, status, details) ==
    /\ Len(execution_log) < MaxLog
    /\ execution_log' = LogAgentExecution(execution_log, agent_name, status, details)
    /\ UNCHANGED <<start_time, end_time, clock, last_report, extVars, runVars>>

MonGenerateReport ==
    /\ last_report' = GenerateReport(execution_log, start_time, end_time)
    /\ UNCHANGED <<monitorVars, clock, runVars, extVars>>

NextMonitor ==
    \/ Tick
    \/ MonStartWorkflow
    \/ MonEndWorkflow
    \/ \E a \in AgentNames, s \in Statuses : MonLogAgentExecution(a, s, "")
    \/ MonGenerateReport

SpecMonitor == Init /\ [][NextMonitor]_vars

\* ------------------------------------------------------------- print_report
\* The number of timeline entries print_report() shows.
TimelineShown == 10

\* s[-n:]
LastN(s, n) == IF Len(s) <= n THEN s ELSE SubSeq(s, Len(s) - n + 1, Len(s))

\* d.get(k, default)
DictGet(d, k, default) == IF HasKey(d, k) THEN d[k] ELSE default

\* What print_report() writes: the figures of a report it generates itself and
\* the last entries of the report's timeline, which is the log itself.
PrintReport(log, st, et) ==
    LET report == GenerateReport(log, st, et)
        timeline == IF HasKey(report, "execution_timeline") THEN log ELSE <<>>
    IN  [duration |-> DictGet(report, "workflow_duration_seconds", 0),
         total_events |-> DictGet(report, "total_events", 0),
         agents_executed |-> DictGet(report, "agents_executed", 0),
         success_rate |-> DictGet(report, "success_rate", "N/A"),
         agent_names |-> DictGet(report, "agent_names", {}),
         status_summary |-> DictGet(report, "status_summary", <<>>),
         timeline |-> LastN(timeline, TimelineShown)]

\* A print_report() that keeps in the log only the entries it shows.
MonPrintReportTruncates ==
    /\ stdout' = PrintReport(execution_log, start_time, end_time)
    /\ execution_log' = LastN(execution_log, TimelineShown)
    /\ UNCHANGED <<start_time, end_time, clock, last_report, runVars,
                   env, main, sessions, rs, client, chatbot>>

MonPrintReport ==
    /\ stdout' = PrintReport(execution_log, start_time, end_time)
    /\ UNCHANGED <<monitorVars, clock, last_report, runVars,
                   env, main, sessions, rs, client, chatbot>>

\* A client that calls all five methods of the monitor, logging the events of
\* one agent.
NextMonitorPrint ==
    \/ Tick
    \/ MonStartWorkflow
    \/ MonEndWorkflow
    \/ \E s \in {"STARTED", "SUCCESS"} : MonLogAgentExecution("BillExtraction", s, "")
    \/ MonGenerateReport
    \/ MonPrintReport

SpecMonitorPrint == Init /\ [][NextMonitorPrint]_vars

\* Most events logged in a long run: one more than print_report() shows.
MaxLongLog == 11

\* log_agent_execution("BillExtraction", "STARTED") in a long run.
MonLogLong ==
    /\ Len(execution_log) < MaxLongLog
    /\ execution_log' = LogAgentExecution(execution_log, "BillExtraction", "STARTED", "")
    /\ UNCHANGED <<start_time, end_time, clock, last_report, extVars, runVars>>

\* A client that runs one workflow with a long log: it starts and ends the
\* workflow once and asks for the report and its print-out at any time.
NextMonitorLong ==
    \/ Tick
    \/ start_time = NoneVal /\ MonStartWorkflow
    \/ end_time = NoneVal /\ MonEndWorkflow
    \/ MonLogLong
    \/ MonGenerateReport
    \/ MonPrintReport

SpecMonitorLong == Init /\ [][NextMonitorLong]_vars

\* ------------------------------------------------------------ str methods
\* A line of standard input is a sequence of characters.
Whitespace == {" ", "\t"}

UpperCase ==
    <<"A", "B", "C", "D", "E", "F", "G", "H", "I", "J", "K", "L", "M",
      "N", "O", "P", "Q", "R", "S", "T", "U", "V", "W", "X", "Y", "Z">>

LowerCase ==
    <<"a", "b", "c", "d", "e", "f", "g", "h", "i", "j", "k", "l", "m",
      "n", "o", "p", "q", "r", "s", "t", "u", "v", "w", "x", "y", "z">>

RECURSIVE LStrip(_)
LStrip(chars) ==
    IF chars # <<>> /\ Head(chars) \in Whitespace THEN LStrip(Tail(chars)) ELSE chars

RECURSIVE RStrip(_)
RStrip(chars) ==
    IF chars # <<>> /\ chars[Len(chars)] \in Whitespace
    THEN RStrip(SubSeq(chars, 1, Len(chars) - 1))
    ELSE chars

\* The line as it was typed.
NoStrip(chars) == chars

\* str.strip()
Strip(chars) == RStrip(LStrip(chars))

\* The letters as they were typed.
NoLower(chars) == chars

\* str.lower()
Lower(chars) ==
    [i \in 1 .. Len(chars) |->
        IF \E k \in 1 .. 26 : UpperCase[k] = chars[i]
        THEN LowerCase[CHOOSE k \in 1 .. 26 : UpperCase[k] = chars[i]]
        ELSE chars[i]]

\* The str the characters make up.
RECURSIVE Concat(_)
Concat(chars) == IF chars = <<>> THEN "" ELSE Head(chars) \o Concat(Tail(chars))

\* ------------------------------------------------------------- run_session
APP_NAME == "medical_bill_app"

USER_ID == "default_user"

SHARED_SESSION_ID == "bill-analysis-session"

\* Runner(agent=..., app_name=APP_NAME, session_service=session_service)
Runner(agent_name) == [agent |-> agent_name, app_name |-> APP_NAME]

\* What the session service keys a session by.
SessionKey(app_name, user_id, session_id) == <<app_name, user_id, session_id>>

\* The key of the session the run_session call in progress works on.
RsKey == SessionKey(rs.runner.app_name, USER_ID, rs.session_name)

\* An event of a session: who wrote it and what it says.
Event(author, text) == [author |-> author, text |-> text]

\* What the agents answer.
Answers == {Str("answer")}

\* run_session(runner_instance, user_queries, session_name, session_service) is
\* entered.
RunSessionCall(runner_instance, user_queries, session_name) ==
    rs' = [pc |-> "create", runner |-> runner_instance, queries |-> user_queries,
           session_name |-> session_name, session |-> Unbound, i |-> 1]

\* Lines 46-49: create_session; it raises when the store holds the key, and the
\* bare except then takes over.
RsCreateSession ==
    /\ rs.pc = "create"
    /\ IF RsKey \in DOMAIN sessions
       THEN /\ rs' = [rs EXCEPT !.pc = "get"]
            /\ UNCHANGED <<sessions, main>>
       ELSE /\ sessions' = SetKey(sessions, RsKey, <<>>)
            /\ rs' = [rs EXCEPT !.pc = "queries", !.session = [id |-> rs.session_name]]
            /\ main' = [main EXCEPT !.acqs =
                           Append(@, [key |-> RsKey, id |-> rs.session_name,
                                      created |-> TRUE, events |-> <<>>])]
    /\ UNCHANGED <<monitorVars, clock, last_report, runVars, stdout, env, chatbot, client>>

\* A fallback that starts the session over.
RsGetSessionFresh ==
    /\ rs.pc = "get"
    /\ sessions' = SetKey(sessions, RsKey, <<>>)
    /\ rs' = [rs EXCEPT !.pc = "queries", !.session = [id |-> rs.session_name]]
    /\ main' = [main EXCEPT !.acqs =
                   Append(@, [key |-> RsKey, id |-> rs.session_name,
                              created |-> FALSE, events |-> <<>>])]
    /\ UNCHANGED <<monitorVars, clock, last_report, runVars, stdout, env, chatbot, client>>

\* Lines 50-53: the fallback, get_session; it returns None for a key the store
\* does not hold.
RsGetSession ==
    /\ rs.pc = "get"
    /\ IF RsKey \in DOMAIN sessions
       THEN /\ rs' = [rs EXCEPT !.pc = "queries", !.session = [id |-> rs.session_name]]
            /\ main' = [main EXCEPT !.acqs =
                           Append(@, [key |-> RsKey, id |-> rs.session_name,
                                      created |-> FALSE, events |-> sessions[RsKey]])]
       ELSE /\ rs' = [rs EXCEPT !.pc = "queries", !.session = NoneVal]
            /\ UNCHANGED main
    /\ UNCHANGED <<monitorVars, clock, last_report, runVars, stdout, env, chatbot, client,
                   sessions>>

\* Lines 249-253 of main(): the exception is logged and the process exits
\* with status 1.
MainFails(exc) == main' = [main EXCEPT !.pc = "exit", !.e = exc]

\* Queries fired without waiting for the answers.
RsSendQueryNoWait ==
    /\ rs.pc = "queries"
    /\ rs.i <= Len(rs.queries)
    /\ LET key == SessionKey(rs.runner.app_name, USER_ID, rs.session.id)
       IN  /\ sessions' = [sessions EXCEPT ![key] =
                              Append(@, Event("user", rs.queries[rs.i]))]
           /\ rs' = [rs EXCEPT !.i = @ + 1]
           /\ main' = [main EXCEPT !.sent =
                          Append(@, [key |-> key, writer |-> rs.runner.agent,
                                     text |-> rs.queries[rs.i],
                                     line |-> Len(main.lines),
                                     context |-> sessions[key]])]
    /\ UNCHANGED <<monitorVars, clock, last_report, runVars, stdout, env, chatbot, client>>

\* Lines 56-69: the next query is handed to Runner.run_async under session.id;
\* the runner stores the user's message in the session before the agent runs.
\* (session.id of None raises.)
RsSendQuery ==
    /\ rs.pc = "queries"
    /\ rs.i <= Len(rs.queries)
    /\ IF rs.session = NoneVal
       THEN /\ MainFails(Exception("AttributeError", "'NoneType' object has no attribute 'id'"))
            /\ rs' = NoRunSession
            /\ UNCHANGED sessions
       ELSE LET key == SessionKey(rs.runner.app_name, USER_ID, rs.session.id)
            IN  /\ sessions' = [sessions EXCEPT ![key] =
                                   Append(@, Event("user", rs.queries[rs.i]))]
                /\ rs' = [rs EXCEPT !.pc = "await"]
                /\ main' = [main EXCEPT !.sent =
                               Append(@, [key |-> key, writer |-> rs.runner.agent,
                                          text |-> rs.queries[rs.i],
                                          line |-> Len(main.lines),
                                          context |-> sessions[key]])]
    /\ UNCHANGED <<monitorVars, clock, last_report, runVars, stdout, env, chatbot, client>>

\* Lines 67-72: the agent's answer arrives and the runner stores it; the loop
\* goes on to the next query.
RsResponse(answer) ==
    /\ rs.pc = "await"
    /\ LET key == SessionKey(rs.runner.app_name, USER_ID, rs.session.id)
       IN  sessions' = [sessions EXCEPT ![key] = Append(@, Event(rs.runner.agent, answer))]
    /\ rs' = [rs EXCEPT !.pc = "queries", !.i = @ + 1]
    /\ UNCHANGED <<monitorVars, clock, last_report, runVars, stdout, env, chatbot, client, main>>

\* Lines 67-69: the agent's request fails; the exception leaves run_session and
\* reaches the handler of main().
RsFail(msg) ==
    /\ rs.pc = "await"
    /\ rs' = NoRunSession
    /\ MainFails(Exception("Exception", msg))
    /\ UNCHANGED <<monitorVars, clock, last_report, runVars, stdout, env, chatbot, client, sessions>>

\* run_session returns to main() once no query is left.
RsReturn ==
    /\ rs.pc = "queries"
    /\ rs.i > Len(rs.queries)
    /\ rs' = NoRunSession
    /\ main' = [main EXCEPT !.pc =
                   CASE main.pc = "await_summary" -> "chatbot"
                     [] main.pc = "await_followups" -> "prompt"
                     [] main.pc = "await_answer" -> "prompt"]
    /\ UNCHANGED <<monitorVars, clock, last_report, runVars, stdout, env, chatbot, client, sessions>>

\* -------------------------------------------------------------------- main
\* Most lines main() reads from standard input.
MaxInputs == 2

\* script_dir / "bills" / "dummy_bill.pdf"
BillFile == "bills/dummy_bill.pdf"

\* What the user types at the prompt.
Lines ==
    {<<"q", "u", "i", "t">>, <<" ", "E", "x", "i", "t", " ">>, <<"Q">>,
     <<>>, <<" ", "\t">>,
     <<"h", "i">>, <<"q", "u", "i", "t", "s">>, <<" ", "q", "?", " ">>}

\* Config.validate(): the exception it raises, None if it raises none.
ConfigValidate(key) ==
    IF ~Truthy(key)
    THEN Exception("ValueError", "GOOGLE_API_KEY" \o " environment variable not set.")
    ELSE NoneVal

\* Lines 117-126: the sample results main() makes up when the bill file is missing.
SampleResults ==
    [bill_file |-> BillFile,
     status |-> "COMPLETED",
     stages |-> <<[key |-> "bill_extraction", status |-> "SUCCESS",
                   data |-> Str("Sample extraction")],
                  [key |-> "charge_extraction", status |-> "SUCCESS",
                   data |-> Str("Office Visit: $150, Lab Work: $300, Total: $450")],
                  [key |-> "parallel_analysis", status |-> "SUCCESS",
                   data |-> Str("No duplicates. All codes valid. Charges explained.")]>>,
     final_output |-> Str("Bill analysis complete. Total: $450. No issues found.")]

\* results.get('stages', {}).get(key, {}).get('data', default), as formatted
StageData(stages, key, default) ==
    IF \E i \in 1 .. Len(stages) : stages[i].key = key
    THEN PyStr(stages[CHOOSE i \in 1 .. Len(stages) : stages[i].key = key].data)
    ELSE default

\* Lines 166-181: the summary text, by the values that fill its template.
BillSummary(res) ==
    [kind |-> "fstring",
     bill_file |-> res["bill_file"],
     status |-> res["status"],
     charge_extraction |-> StageData(res["stages"], "charge_extraction",
                                     "No charge data available"),
     parallel_analysis |-> StageData(res["stages"], "parallel_analysis",
                                     "No analysis data available"),
     final_output |-> IF HasKey(res, "final_output") THEN PyStr(res["final_output"])
                      ELSE "No final output available"]

\* Lines 132-142: the block main() prints for the results: the file, the
\* status, the number of stages, each stage with its status, and the final
\* output if there is one.
PrintResults(res) ==
    [kind |-> "results",
     bill_file |-> res["bill_file"],
     status |-> res["status"],
     stages_completed |-> Len(res["stages"]),
     stages |-> [i \in 1 .. Len(res["stages"]) |->
                    <<res["stages"][i].key, res["stages"][i].status>>],
     final_output |-> IF HasKey(res, "final_output")
                      THEN <<PyStr(res["final_output"])>> ELSE <<>>]

\* Lines 214-218.
FollowUps ==
    <<Str("What was the total amount on the bill?"),
      Str("Is that amount reasonable?"),
      Str("Were any duplicate charges found?")>>

\* A main() that builds the orchestrator before it looks at the configuration.
MainValidateLate ==
    /\ main.pc = "start"
    /\ IF ConfigValidate(env.GOOGLE_API_KEY) # NoneVal
       THEN main' = [main EXCEPT !.pc = "exit", !.orchestrator = Object("MedicalBillOrchestrator"),
                                 !.e = ConfigValidate(env.GOOGLE_API_KEY)]
       ELSE main' = [main EXCEPT !.pc = "setup"]
    /\ UNCHANGED <<monitorVars, clock, last_report, runVars, stdout, env, chatbot, client,
                   sessions, rs>>

\* Lines 83-85: Config.validate(); what it raises goes to the handler of line 249.
MainValidate ==
    /\ main.pc = "start"
    /\ IF ConfigValidate(env.GOOGLE_API_KEY) # NoneVal
       THEN MainFails(ConfigValidate(env.GOOGLE_API_KEY))
       ELSE main' = [main EXCEPT !.pc = "setup"]
    /\ UNCHANGED <<monitorVars, clock, last_report, runVars, stdout, env, chatbot, client,
                   sessions, rs>>

\* Lines 90-110: the session service and the orchestrator are constructed.
MainSetup ==
    /\ main.pc = "setup"
    /\ main' = [main EXCEPT !.pc = "bill_check", !.orchestrator = Object("MedicalBillOrchestrator")]
    /\ UNCHANGED <<monitorVars, clock, last_report, runVars, stdout, env, chatbot, client,
                   sessions, rs>>

\* Lines 112-126: the bill file is missing.
MainSampleResults ==
    /\ main.pc = "bill_check"
    /\ BillFile \notin ExistingFiles
    /\ main' = [main EXCEPT !.pc = "results", !.results = SampleResults]
    /\ UNCHANGED <<monitorVars, clock, last_report, runVars, stdout, env, chatbot, client,
                   sessions, rs>>

\* Line 129: the bill file is there, process_bill is awaited.
MainProcessBill ==
    /\ main.pc = "bill_check"
    /\ BillFile \in ExistingFiles
    /\ main' = [main EXCEPT !.pc = "process_bill"]
    /\ UNCHANGED <<monitorVars, clock, last_report, runVars, stdout, env, chatbot, client,
                   sessions, rs>>

\* Line 129: process_bill has returned its results.
MainResults ==
    /\ main.pc = "process_bill"
    /\ pc[1] = "returned"
    /\ main' = [main EXCEPT !.pc = "results", !.results = results[1]]
    /\ UNCHANGED <<monitorVars, clock, last_report, runVars, stdout, env, chatbot, client,
                   sessions, rs>>

\* Lines 132-189: the results are printed and the summary is written to the
\* shared session by the summary agent.
MainWriteSummary ==
    /\ main.pc = "results"
    /\ main' = [main EXCEPT !.pc = "await_summary",
                            !.printed = Append(@, PrintResults(main.results))]
    /\ RunSessionCall(Runner("bill_summary_agent"), <<BillSummary(main.results)>>,
                      SHARED_SESSION_ID)
    /\ UNCHANGED <<monitorVars, clock, last_report, runVars, stdout, env, chatbot, client,
                   sessions>>

\* A chatbot that is given a session of its own.
MainFollowUpsOwnSession ==
    /\ main.pc = "chatbot"
    /\ main' = [main EXCEPT !.pc = "await_followups"]
    /\ RunSessionCall(Runner("medical_bill_chatbot"), FollowUps, "chatbot-session")
    /\ UNCHANGED <<monitorVars, clock, last_report, runVars, stdout, env, chatbot, client,
                   sessions>>

\* Lines 199-221: the chatbot is built and asked the three follow-up
\* questions under the shared session.
MainFollowUps ==
    /\ main.pc = "chatbot"
    /\ main' = [main EXCEPT !.pc = "await_followups"]
    /\ RunSessionCall(Runner("medical_bill_chatbot"), FollowUps, SHARED_SESSION_ID)
    /\ UNCHANGED <<monitorVars, clock, last_report, runVars, stdout, env, chatbot, client,
                   sessions>>

\* Lines 229-242: a line is read at the prompt.
MainInput(line) ==
    /\ main.pc = "prompt"
    /\ Len(main.lines) < MaxInputs
    /\ LET user_input == Strip(line)
           read == [main EXCEPT !.lines = Append(@, line),
                                !.user_input = Str(Concat(user_input))]
       IN  IF Concat(Lower(user_input)) \in {"quit", "exit", "q"}
           THEN /\ main' = [read EXCEPT !.pc = "done"]
                /\ UNCHANGED rs
           ELSE IF Truthy(Str(Concat(user_input)))
           THEN /\ main' = [read EXCEPT !.pc = "await_answer"]
                /\ RunSessionCall(Runner("medical_bill_chatbot"),
                                  <<Str(Concat(user_input))>>, SHARED_SESSION_ID)
           ELSE /\ main' = read
                /\ UNCHANGED rs
    /\ UNCHANGED <<monitorVars, clock, last_report, runVars, stdout, env, chatbot, client,
                   sessions>>

\* Lines 243-245: standard input ends, or the user interrupts, at the prompt.
MainEOF ==
    /\ main.pc = "prompt"
    /\ main' = [main EXCEPT !.pc = "done", !.eof = TRUE]
    /\ UNCHANGED <<monitorVars, clock, last_report, runVars, stdout, env, chatbot, client,
                   sessions, rs>>

\* The shared session as an earlier run of the program left it in the database.
EarlierSession ==
    <<Event("user", BillSummary(SampleResults)), Event("bill_summary_agent", Str("answer")),
      Event("user", Str("earlier question")), Event("medical_bill_chatbot", Str("answer"))>>

Stores ==
    {<<>>,
     SetKey(<<>>, SessionKey(APP_NAME, USER_ID, SHARED_SESSION_ID), EarlierSession)}

\* os.getenv("GOOGLE_API_KEY"): unset, set to nothing, set.
ApiKeys == {NoneVal, Str(""), Str("key")}

InitMain ==
    /\ InitOrchestrator
    /\ env \in [GOOGLE_API_KEY : ApiKeys, files : {{}, {BillFile}}]
    /\ main = NoMain
    /\ sessions \in Stores
    /\ rs = NoRunSession
    /\ client = NoRequest
    /\ chatbot = NoChatbot

\* One run of the program: main(), the process_bill call it awaits and the
\* run_session calls it awaits.
NextMain ==
    \/ MainValidate
    \/ MainSetup
    \/ MainSampleResults
    \/ MainProcessBill
    \/ main.pc = "process_bill" /\ Call(1, BillFile)
    \/ Stage1Start(1)
    \/ BillLoadFail(1)
    \/ \E msg \in Msgs : BillExtractFail(1, msg)
    \/ \E text \in BillTexts : BillExtractOk(1, text)
    \/ Stage1Done(1)
    \/ Stage2Start(1)
    \/ \E val \in RunnerResults : ChargeExtractOk(1, val)
    \/ \E msg \in Msgs : ChargeExtractFail(1, msg)
    \/ Stage2Done(1)
    \/ Stage3Start(1)
    \/ \E val \in RunnerResults : ParallelOk(1, val)
    \/ \E msg \in Msgs : ParallelFail(1, msg)
    \/ Stage3Done(1)
    \/ MarkComplete(1)
    \/ Except(1)
    \/ Finally(1)
    \/ Return(1)
    \/ MainResults
    \/ MainWriteSummary
    \/ RsCreateSession
    \/ RsGetSession
    \/ RsSendQuery
    \/ \E answer \in Answers : RsResponse(answer)
    \/ \E msg \in Msgs : RsFail(msg)
    \/ RsReturn
    \/ MainFollowUps
    \/ \E line \in Lines : MainInput(line)
    \/ MainEOF

SpecMain == InitMain /\ [][NextMain]_vars

\* -------------------------------------------------------- capability client
\* types.HttpRetryOptions(attempts=5, exp_base=2, initial_delay=1,
\*                        http_status_codes=[429, 500, 503, 504])
RetryConfig ==
    [attempts |-> 5, exp_base |-> 2, initial_delay |-> 1,
     http_status_codes |-> {429, 500, 503, 504}]

\* The stages that call the capability.
Stages ==
    {"BillExtraction", "ChargeExtraction", "DuplicateAuditor", "CodeAuditor",
     "ChargeExplainer"}

\* The retry options the client of a stage is built with.  The agents built by
\* AgentWrapper get Gemini(model, retry_options=retry_config); BillExtraction
\* builds genai.Client(api_key=...) and passes no retry options.
RetryOptions(stage) == IF stage = "BillExtraction" THEN NoneVal ELSE RetryConfig

\* The HTTP status codes the provider answers with.
StatusCodes == {200, 400, 404, 429, 500, 503, 504}

RECURSIVE Pow(_, _)
Pow(b, n) == IF n = 0 THEN 1 ELSE b * Pow(b, n - 1)

\* The client retries the answer to its attempt-th try (without retry options
\* a request is tried once).
Retries(options, code, attempt) ==
    /\ options # NoneVal
    /\ code \in options.http_status_codes
    /\ attempt < options.attempts

\* A stage sends a request through its client.
ClientRequest(stage) ==
    /\ client.pc = "idle"
    /\ client' = [pc |-> "sent", stage |-> stage, attempt |-> 1,
                  codes |-> <<>>, waits |-> <<>>]
    /\ UNCHANGED <<monitorVars, clock, last_report, runVars, stdout, env, chatbot, main,
                   sessions, rs>>

\* The provider answers: the result is returned, the request is tried again
\* after a wait, or the error is raised to the stage and from there, unchanged,
\* to process_bill.
ClientResponse(code) ==
    /\ client.pc = "sent"
    /\ client' = [client EXCEPT
                     !.codes = Append(@, code),
                     !.pc = IF code = 200 THEN "returned"
                            ELSE IF Retries(RetryOptions(client.stage), code, client.attempt)
                            THEN "backoff"
                            ELSE "raised"]
    /\ UNCHANGED <<monitorVars, clock, last_report, runVars, stdout, env, chatbot, main,
                   sessions, rs>>

\* The wait before the next try: initial_delay * exp_base ^ (tries made - 1).
ClientBackoff ==
    /\ client.pc = "backoff"
    /\ LET options == RetryOptions(client.stage)
       IN  client' = [client EXCEPT
                         !.pc = "sent",
                         !.attempt = @ + 1,
                         !.waits = Append(@, options.initial_delay
                                             * Pow(options.exp_base, client.attempt - 1))]
    /\ UNCHANGED <<monitorVars, clock, last_report, runVars, stdout, env, chatbot, main,
                   sessions, rs>>

\* The stage has its result or its error; the client is free for the next request.
ClientDone ==
    /\ client.pc \in {"returned", "raised"}
    /\ client' = NoRequest
    /\ UNCHANGED <<monitorVars, clock, last_report, runVars, stdout, env, chatbot, main,
                   sessions, rs>>

NextClient ==
    \/ \E stage \in Stages : ClientRequest(stage)
    \/ \E code \in StatusCodes : ClientResponse(code)
    \/ ClientBackoff
    \/ ClientDone

SpecClient == Init /\ [][NextClient]_vars

\* ------------------------------------------------------ ConversationalAgent
\* Most chat calls made on the agent.
MaxChats == 3

\* MedicalBillChatbot: name="MedicalBillChatbot"
ChatbotName == "MedicalBillChatbot"

\* App(name=f"{name}_app", ...)
ChatbotApp == ChatbotName \o "_app"

\* The users that talk to the chatbot.
ChatUsers == {"default_user", "patient_123"}

\* The session_id argument of chat: left out, or an explicit id.
SessionIdArgs == {NoneVal, Str("visit-2")}

\* f"{self.name}_{user_id}_session"
DefaultSessionId(user_id) == ChatbotName \o "_" \o user_id \o "_session"

\* del d[k]
DelKey(d, k) == [x \in (DOMAIN d) \ {k} |-> d[x]]

\* Lines 109-117 of chat: the sessions dict after the call has settled on a
\* session id.
ChatSessions(dict, user_id, session_id) ==
    IF session_id = NoneVal
    THEN IF user_id \notin DOMAIN dict
         THEN SetKey(dict, user_id, DefaultSessionId(user_id))
         ELSE dict
    ELSE SetKey(dict, user_id, session_id.text)

\* Lines 144-145 of reset_session.
ResetSessions(dict, user_id) ==
    IF user_id \in DOMAIN dict THEN DelKey(dict, user_id) ELSE dict

\* Runner.run_async stores an event in the session, which it creates when the
\* store does not hold it (line 123).
StoreEvent(store, key, event) ==
    IF key \in DOMAIN store
    THEN [store EXCEPT ![key] = Append(@, event)]
    ELSE SetKey(store, key, <<event>>)

\* The texts of the turns the store holds for a user, over all the sessions.
UserTurns(store, user_id) ==
    UNION {{store[key][i].text : i \in {j \in 1 .. Len(store[key]) :
                                          store[key][j].author = "user"}} :
           key \in {k \in DOMAIN store : k[1] = ChatbotApp /\ k[2] = user_id}}

\* Lines 95-128: chat(message, user_id, session_id) up to the await on the
\* runner; the runner stores the user's message before the agent runs.
Chat(message, user_id, session_id) ==
    /\ chatbot.pc = "idle"
    /\ chatbot.n < MaxChats
    /\ LET dict == ChatSessions(chatbot.sessions, user_id, session_id)
           sid == IF session_id = NoneVal THEN dict[user_id] ELSE session_id.text
           key == SessionKey(ChatbotApp, user_id, sid)
       IN  /\ sessions' = StoreEvent(sessions, key, Event("user", message))
           /\ chatbot' =
                 [sessions |-> dict, pc |-> "await",
                  user_id |-> user_id, session_id |-> sid,
                  n |-> chatbot.n + 1,
                  old |-> chatbot.old,
                  fresh |-> IF session_id = NoneVal THEN chatbot.fresh \ {user_id}
                            ELSE chatbot.fresh,
                  \* history: the call is the first one by default after a reset
                  after_reset |-> session_id = NoneVal /\ user_id \in chatbot.fresh,
                  \* history: what the session held when the call came to it
                  found |-> IF key \in DOMAIN sessions THEN sessions[key] ELSE <<>>]
    /\ UNCHANGED <<monitorVars, clock, last_report, runVars, stdout, env, main, rs, client>>

\* Lines 130-135: the agent's answer arrives, the runner stores it, chat returns.
ChatResponse(answer) ==
    /\ chatbot.pc = "await"
    /\ sessions' = StoreEvent(sessions,
                              SessionKey(ChatbotApp, chatbot.user_id, chatbot.session_id),
                              Event(ChatbotName, answer))
    /\ chatbot' = [sessions |-> chatbot.sessions, pc |-> "idle", n |-> chatbot.n,
                   old |-> chatbot.old, fresh |-> chatbot.fresh]
    /\ UNCHANGED <<monitorVars, clock, last_report, runVars, stdout, env, main, rs, client>>

\* Lines 124-131: the agent's request fails and the exception leaves chat.
ChatFail(msg) ==
    /\ chatbot.pc = "await"
    /\ chatbot' = [sessions |-> chatbot.sessions, pc |-> "idle", n |-> chatbot.n,
                   old |-> chatbot.old, fresh |-> chatbot.fresh]
    /\ UNCHANGED <<monitorVars, clock, last_report, runVars, stdout, env, main, rs, client,
                   sessions>>

\* Lines 137-146: reset_session(user_id), between two chat calls.
ResetSession(user_id) ==
    /\ chatbot.pc = "idle"
    /\ chatbot' = [chatbot EXCEPT
                      !.sessions = ResetSessions(@, user_id),
                      !.old = SetKey(@, user_id, UserTurns(sessions, user_id)),
                      !.fresh = @ \cup {user_id}]
    /\ UNCHANGED <<monitorVars, clock, last_report, runVars, stdout, env, main, rs, client,
                   sessions>>

\* The n-th message a user sends.
Message(n) == Str("message " \o ToString(n))

NextChat ==
    \/ \E user_id \in ChatUsers, session_id \in SessionIdArgs :
          Chat(Message(chatbot.n + 1), user_id, session_id)
    \/ \E answer \in Answers : ChatResponse(answer)
    \/ \E msg \in Msgs : ChatFail(msg)
    \/ \E user_id \in ChatUsers : ResetSession(user_id)

SpecChat == Init /\ [][NextChat]_vars

\* ================================================================== claims
Status(r) == IF results[r] = Unbound THEN "NONE" ELSE results[r]["status"]

Returned(r) == pc[r] = "returned"

\* The places of the history of call r where an operation of the given kind stands.
OpsAt(r, kind) == {i \in 1 .. Len(hist[r]) : hist[r][i].op = kind}

\* Call r saw the given stage raise.
StageRaised(r, stage) == \E i \in OpsAt(r, "raise") : hist[r][i].stage = stage

StageKeys(r) == [i \in 1 .. Len(results[r]["stages"]) |-> results[r]["stages"][i].key]

\* C1: once process_bill has started no exception escapes it; whatever the
\* stages do it returns a result whose status is COMPLETED or FAILED, and the
\* status only ever goes from IN_PROGRESS to COMPLETED or from IN_PROGRESS to
\* FAILED.
C1_StructuredResult ==
    /\ [](\A r \in Runs :
            /\ pc[r] # "escaped"
            /\ Returned(r) => Status(r) \in {"COMPLETED", "FAILED"})
    /\ [][\A r \in Runs :
            Status(r)' # Status(r) =>
               \/ Status(r) = "NONE" /\ Status(r)' = "IN_PROGRESS"
               \/ Status(r) = "IN_PROGRESS" /\ Status(r)' \in {"COMPLETED", "FAILED"}]_vars

\* A state where one call has returned COMPLETED and another FAILED after its
\* fan-out stage raised.
C1_Witness ==
    \E r1, r2 \in Runs :
        /\ Returned(r1) /\ Status(r1) = "COMPLETED"
        /\ Returned(r2) /\ Status(r2) = "FAILED" /\ StageRaised(r2, "Parallel")

\* C2: if the ChargeExtraction stage raises, with whatever message, the result
\* is FAILED, has a non-empty error, has the bill_extraction entry with
\* SUCCESS and has no parallel_analysis entry.
C2_ChargeFailureContained ==
    \A r \in Runs :
        Returned(r) /\ StageRaised(r, "ChargeExtraction") =>
            /\ Status(r) = "FAILED"
            /\ HasKey(results[r], "error")
            /\ results[r]["error"] # ""
            /\ \E i \in 1 .. Len(results[r]["stages"]) :
                  /\ results[r]["stages"][i].key = "bill_extraction"
                  /\ results[r]["stages"][i].status = "SUCCESS"
            /\ \A i \in 1 .. Len(results[r]["stages"]) :
                  results[r]["stages"][i].key # "parallel_analysis"

\* C3: after a stage has failed the call starts nothing more: no stage is
\* called, no capability is invoked, no STARTED event is logged and no stage
\* entry is added after the failure.
C3_StopsAdvancing ==
    \A r \in Runs :
        \A i \in OpsAt(r, "raise") :
            \A j \in (i + 1) .. Len(hist[r]) :
                /\ hist[r][j].op \notin {"call", "capability", "stage_entry", "ret"}
                /\ hist[r][j].op = "log" => hist[r][j].status # "STARTED"

\* A call that has returned after its ChargeExtraction stage raised, the
\* fan-out stage still ahead of it.
C3_Witness ==
    \E r \in Runs :
        /\ Returned(r)
        /\ StageRaised(r, "ChargeExtraction")
        /\ OpsAt(r, "call") # {}
        /\ \A i \in OpsAt(r, "call") : hist[r][i].stage # "Parallel"

\* C4: on every path end_workflow() is called exactly once, after the last
\* event of the call and before the return, and the result carries a
\* governance_report generated after that end_workflow().
C4_EndWorkflowOnce ==
    \A r \in Runs :
        Returned(r) =>
            /\ Cardinality(OpsAt(r, "end_workflow")) = 1
            /\ Cardinality(OpsAt(r, "generate_report")) = 1
            /\ hist[r][Len(hist[r])].op = "return"
            /\ HasKey(results[r], "governance_report")
            /\ HasKey(results[r]["governance_report"], "total_events")
            /\ \A e \in OpsAt(r, "end_workflow"), g \in OpsAt(r, "generate_report") :
                  /\ \A i \in OpsAt(r, "log") : i < e
                  /\ e < g
                  /\ g < Len(hist[r])
                  /\ results[r]["governance_report"].total_events = hist[r][g].n
                  /\ results[r]["governance_report"].workflow_duration_seconds
                        = hist[r][e].t - hist[r][g].st.t

\* A failed call has returned with a report whose duration spans a clock tick.
C4_Witness ==
    \E r \in Runs :
        /\ Returned(r)
        /\ Status(r) = "FAILED"
        /\ results[r]["governance_report"].workflow_duration_seconds = 1

StageAgents ==
    {"BillExtraction", "ChargeExtraction", "DuplicateAuditor", "CodeAuditor",
     "ChargeExplainer"}

\* The log as it stood when call r returned.
LogAtReturn(r) == SubSeq(execution_log, 1, hist[r][Len(hist[r])].n)

\* C5 as claimed: in the log at the time process_bill returns every STARTED
\* event is followed by a SUCCESS or FAILED event carrying the same agent name,
\* and every SUCCESS or FAILED event of a stage has an earlier STARTED event
\* of that stage.
C5_StartedThenSameNameOutcome ==
    \A r \in Runs :
        Returned(r) =>
            LET log == LogAtReturn(r)
            IN  \A i \in 1 .. Len(log) :
                   /\ log[i].status = "STARTED" =>
                         \E j \in (i + 1) .. Len(log) :
                            /\ log[j].status \in {"SUCCESS", "FAILED"}
                            /\ log[j].agent = log[i].agent
                   /\ (log[i].status \in {"SUCCESS", "FAILED"} /\ log[i].agent \in StageAgents) =>
                         \E j \in 1 .. (i - 1) :
                            /\ log[j].status = "STARTED"
                            /\ log[j].agent = log[i].agent

\* The events call r appended, as places of the log, in the order it appended them.
OwnEvents(r) ==
    LET ops == SelectSeq(hist[r], LAMBDA o : o.op = "log")
    IN  [i \in 1 .. Len(ops) |-> ops[i].idx]

\* C5 as amended: of the events a call has logged when it returns, every
\* STARTED event is followed by a SUCCESS event of the same agent name or by
\* the call's FAILED event, which is named Orchestrator; every SUCCESS event
\* has an earlier STARTED event of the same name; no FAILED event carries a
\* stage's name.
C5_StartedThenOutcome ==
    \A r \in Runs :
        Returned(r) =>
            LET own == OwnEvents(r)
                ev(i) == execution_log[own[i]]
            IN  \A i \in 1 .. Len(own) :
                   /\ own[i] <= Len(LogAtReturn(r))
                   /\ i > 1 => own[i - 1] < own[i]
                   /\ ev(i).status = "STARTED" =>
                         \E j \in (i + 1) .. Len(own) :
                            \/ ev(j).status = "SUCCESS" /\ ev(j).agent = ev(i).agent
                            \/ ev(j).status = "FAILED" /\ ev(j).agent = "Orchestrator"
                   /\ ev(i).status = "SUCCESS" =>
                         \E j \in 1 .. (i - 1) :
                            ev(j).status = "STARTED" /\ ev(j).agent = ev(i).agent
                   /\ ev(i).status = "FAILED" => ev(i).agent = "Orchestrator"

\* A call has returned after its fan-out stage raised: its three STARTED events
\* are followed by the FAILED event only.
C5_Witness ==
    \E r \in Runs :
        /\ Returned(r)
        /\ StageRaised(r, "Parallel")
        /\ LET own == OwnEvents(r)
           IN  /\ Len(own) = 8
               /\ execution_log[own[7]].status = "STARTED"
               /\ execution_log[own[8]].status = "FAILED"

\* The stage whose failure call r saw.
FailedStage(r) == CHOOSE s \in {"BillExtraction", "ChargeExtraction", "Parallel"} :
                      StageRaised(r, s)

\* The FAILED event call r logged.
FailedEvent(r) ==
    LET own == OwnEvents(r)
    IN  execution_log[CHOOSE k \in {own[i] : i \in 1 .. Len(own)} :
                          execution_log[k].status = "FAILED"]

\* C6: a stage failure reaches the orchestrator carrying the name of the
\* failing stage, so the FAILED result tells, by its error field or its FAILED
\* event, which stage failed: two failed results that agree on both come from
\* the same stage.
C6_FailureNamesStage ==
    \A r1, r2 \in Runs :
        (/\ Returned(r1) /\ Status(r1) = "FAILED"
         /\ Returned(r2) /\ Status(r2) = "FAILED"
         /\ results[r1]["error"] = results[r2]["error"]
         /\ FailedEvent(r1).agent = FailedEvent(r2).agent
         /\ FailedEvent(r1).details = FailedEvent(r2).details)
        => FailedStage(r1) = FailedStage(r2)

AllStagesReturned(r) ==
    \A stage \in {"BillExtraction", "ChargeExtraction", "Parallel"} :
        \E i \in OpsAt(r, "ret") : hist[r][i].stage = stage

\* C7: when all stages succeed the result is COMPLETED, holds exactly the
\* entries bill_extraction, charge_extraction and parallel_analysis, each
\* SUCCESS with its data, a non-empty final_output equal to the
\* parallel_analysis data, and no error.
C7_SuccessResult ==
    \A r \in Runs :
        Returned(r) /\ AllStagesReturned(r) =>
            /\ Status(r) = "COMPLETED"
            /\ StageKeys(r) = <<"bill_extraction", "charge_extraction", "parallel_analysis">>
            /\ \A i \in 1 .. 3 :
                  /\ results[r]["stages"][i].status = "SUCCESS"
                  /\ "data" \in DOMAIN results[r]["stages"][i]
            /\ results[r]["stages"][1].data = frame[r].extracted_data
            /\ results[r]["stages"][2].data = frame[r].charges_data
            /\ HasKey(results[r], "final_output")
            /\ results[r]["final_output"] = results[r]["stages"][3].data
            /\ results[r]["final_output"].kind = "str"
            /\ results[r]["final_output"].text # ""
            /\ ~HasKey(results[r], "error")

\* A call has returned COMPLETED although the fan-out stage returned no event.
C7_Witness ==
    \E r \in Runs :
        /\ Returned(r)
        /\ AllStagesReturned(r)
        /\ frame[r].parallel_results = EventList(<<>>)
        /\ results[r]["final_output"] = Str("[]")

IsPrefix(s, t) == Len(s) <= Len(t) /\ \A i \in 1 .. Len(s) : s[i] = t[i]

StagesCalled(r) ==
    LET calls == SelectSeq(hist[r], LAMBDA o : o.op = "call")
    IN  [i \in 1 .. Len(calls) |-> calls[i].stage]

\* C8: the stages are called in the fixed order, none twice, none skipped:
\* ChargeExtraction only after BillExtraction has returned and with exactly
\* what it returned, the fan-out group only after ChargeExtraction has
\* returned and with exactly what it returned; a call that completes has
\* called all three.
C8_FixedSequence ==
    \A r \in Runs :
        /\ IsPrefix(StagesCalled(r), <<"BillExtraction", "ChargeExtraction", "Parallel">>)
        /\ \A i \in OpsAt(r, "call") :
              /\ hist[r][i].stage = "ChargeExtraction" =>
                    \E j \in 1 .. (i - 1) :
                       hist[r][j] = OpReturn("BillExtraction", hist[r][i].arg)
              /\ hist[r][i].stage = "Parallel" =>
                    \E j \in 1 .. (i - 1) :
                       hist[r][j] = OpReturn("ChargeExtraction", hist[r][i].arg)
        /\ Status(r) = "COMPLETED" => Len(StagesCalled(r)) = 3

\* A call waits for the fan-out group, started on the charges that
\* ChargeExtraction returned for a non-empty bill text.
C8_Witness ==
    \E r \in Runs :
        /\ pc[r] = "await_parallel"
        /\ frame[r].extracted_data = Str("{bill}")
        /\ frame[r].charges_data = EventList(<<"out">>)
        /\ hist[r][Len(hist[r]) - 1] = OpCall("Parallel", EventList(<<"out">>))

\* A step in which generate_report(), called directly, returns a new report.
NewReport == last_report' # last_report

RateIsRounded(report, log) ==
    LET N == Len(log)
        S == Cardinality({i \in 1 .. N : log[i].status = "SUCCESS"})
        q == (1000 * S) \div N
    IN  /\ HasKey(report, "success_rate")
        /\ HasKey(report, "total_events")
        /\ report["total_events"] = N
        /\ \E t \in {q, q + 1} :
              /\ 2 * (1000 * S - t * N) <= N
              /\ 2 * (t * N - 1000 * S) <= N
              /\ report["success_rate"] = FormatTenths(t)

C11_AppendOnly ==
    [][IsPrefix(execution_log, execution_log')]_vars

\* Two events were logged, print_report() showed both, a report was generated
\* and the workflow ended; a third event then joined the log behind them.
C11_Witness ==
    /\ Len(execution_log) = 3
    /\ stdout # <<>>
    /\ stdout.timeline = SubSeq(execution_log, 1, 2)
    /\ execution_log[1] # execution_log[2]
    /\ last_report # NoneVal
    /\ Truthy(end_time)

\* The result of call r as the caller who holds it reads it.
ResultRead(r) ==
    IF results[r] # Unbound /\ HasKey(results[r], "governance_report")
    THEN SetKey(results[r], "governance_report",
                ReportRead(results[r]["governance_report"], execution_log))
    ELSE results[r]

\* C12: once process_bill has returned a result, nothing done later on the same
\* orchestrator, a further process_bill call included, changes any part of
\* what that result reads as, the execution_timeline of its governance_report
\* included.
C12_ResultImmutable ==
    [][\A r \in Runs : Returned(r) => ResultRead(r)' = ResultRead(r)]_vars

\* The key main() uses for every run_session call.
SharedKey == SessionKey(APP_NAME, USER_ID, SHARED_SESSION_ID)

\* A step in which run_session acquires its session.
Acquires == Len(main'.acqs) = Len(main.acqs) + 1

\* C13: acquiring a session by create-then-get is idempotent: two acquisitions
\* under the same (app, user, session id) give sessions of the same id; an
\* acquisition of a session that exists leaves its stored events as they are
\* and hands them on; and across acquisitions and appends no stored event log
\* ever shrinks or changes what it already holds.
C13_AcquireIdempotent ==
    /\ [](\A i, j \in 1 .. Len(main.acqs) :
             main.acqs[i].key = main.acqs[j].key => main.acqs[i].id = main.acqs[j].id)
    /\ [][/\ \A k \in DOMAIN sessions :
                k \in DOMAIN sessions' /\ IsPrefix(sessions[k], sessions'[k])
          /\ Acquires =>
                LET a == main'.acqs[Len(main'.acqs)]
                IN  /\ a.key \in DOMAIN sessions =>
                          /\ ~a.created
                          /\ sessions' = sessions
                          /\ a.events = sessions[a.key]
                    /\ a.key \notin DOMAIN sessions =>
                          /\ a.created
                          /\ sessions'[a.key] = <<>>]_vars

\* The session was created by the first acquisition, on an empty store; the
\* third acquisition, at the prompt, got it back with the eight events of the
\* summary and the follow-up questions.
C13_Witness ==
    /\ Len(main.acqs) = 3
    /\ main.acqs[1].created
    /\ ~main.acqs[3].created
    /\ main.acqs[3].key = main.acqs[1].key
    /\ Len(main.acqs[3].events) = 8
    /\ rs.pc = "queries"

\* The queries of this run that went out through the chatbot's runner, as
\* places of main.sent.
ChatbotQueries ==
    {j \in 1 .. Len(main.sent) : main.sent[j].writer = "medical_bill_chatbot"}

\* The place the summary turn of this run took in the shared session.
SummaryAt == Len(main.sent[1].context) + 1

\* The chatbot reads, for query j, a session that holds this run's summary turn.
ReadsSummary(j) ==
    /\ main.sent[1].writer = "bill_summary_agent"
    /\ main.sent[1].text = BillSummary(main.results)
    /\ main.sent[j].key = main.sent[1].key
    /\ Len(main.sent[j].context) >= SummaryAt
    /\ main.sent[j].context[SummaryAt] = Event("user", main.sent[1].text)

\* C14 as claimed: the summary turn written under the shared session id is in
\* the session the chatbot reads for every follow-up question, and it comes
\* before every chatbot turn of the session log.
C14_SummaryBeforeAllChatbotTurns ==
    \A j \in ChatbotQueries :
        /\ ReadsSummary(j)
        /\ \A p \in 1 .. Len(sessions[SharedKey]) :
              sessions[SharedKey][p].author = "medical_bill_chatbot" => SummaryAt < p

\* C14 as amended: the summary turn is in the session the chatbot reads for
\* every follow-up question, and it comes before every turn the chatbot's
\* runner writes in the same run of the program; the turns an earlier run left
\* in the session stay in front of it.
C14_SummaryBeforeRunsChatbotTurns ==
    \A j \in ChatbotQueries :
        /\ ReadsSummary(j)
        /\ SummaryAt < Len(main.sent[j].context) + 1
        /\ IsPrefix(main.sent[1].context, sessions[SharedKey])
        /\ \A p \in (Len(main.sent[1].context) + 1) .. Len(sessions[SharedKey]) :
              sessions[SharedKey][p].author = "medical_bill_chatbot" => SummaryAt < p

\* A question typed at the prompt went to the chatbot, which read the summary
\* of this run behind the four events an earlier run had left in the session.
C14_Witness ==
    /\ Len(main.sent) = 5
    /\ main.sent[5].line = 1
    /\ main.sent[5].writer = "medical_bill_chatbot"
    /\ SummaryAt = 5
    /\ main.sent[5].context[5] = Event("user", BillSummary(main.results))
    /\ main.results["status"] = "FAILED"

\* The events this run of the program has added to the shared session.
RunEvents ==
    IF main.sent = <<>> THEN <<>>
    ELSE SubSeq(sessions[SharedKey], Len(main.sent[1].context) + 1,
                Len(sessions[SharedKey]))

\* C15: writes to one session are serialized: the turns of the summary agent
\* and of the chatbot, and of successive run_session calls, never interleave;
\* the user turn of each query and its response are both in the session before
\* the turn of the next query begins, so the events of a run are the queries in
\* the order they were sent, each followed by the answer of the agent it went to.
C15_TurnsSerialized ==
    LET n == Len(main.sent)
    IN  /\ Len(RunEvents) \in {2 * n - 1, 2 * n} \cap Nat
        /\ \A j \in 1 .. n :
              /\ main.sent[j].key = SharedKey
              /\ Len(main.sent[j].context) = Len(main.sent[1].context) + 2 * (j - 1)
              /\ RunEvents[2 * j - 1] = Event("user", main.sent[j].text)
              /\ 2 * j <= Len(RunEvents) => RunEvents[2 * j].author = main.sent[j].writer

\* The summary agent's turn and the chatbot's first turn are complete and the
\* second follow-up question has just been stored, its answer still awaited.
C15_Witness ==
    /\ Len(main.sent) = 3
    /\ rs.pc = "await"
    /\ Len(RunEvents) = 5
    /\ RunEvents[2].author = "bill_summary_agent"
    /\ RunEvents[4].author = "medical_bill_chatbot"
    /\ RunEvents[5] = Event("user", FollowUps[2])

\* The provider errors the retry policy is about.
Transient == {429, 500, 503, 504}

\* C16: for the capability call of every stage, a transient provider error
\* (429, 500, 503, 504) is tried again inside the client, after waits of 1, 2,
\* 4 and 8 times the base delay, at most 5 tries in all, and reaches the
\* orchestrator as a failure only when the 5 tries are used up; an error with
\* another status code is raised at once.
C16_TransientRetried ==
    client.pc # "idle" =>
        LET n == Len(client.codes)
        IN  /\ client.attempt <= 5
            /\ \A i \in 1 .. Len(client.waits) : client.waits[i] = Pow(2, i - 1)
            /\ \A i \in 1 .. (n - 1) : client.codes[i] \in Transient
            /\ client.pc = "raised" =>
                  \/ client.codes[n] \in Transient /\ n = 5
                  \/ client.codes[n] \notin Transient \cup {200}
            /\ client.pc = "backoff" => client.codes[n] \in Transient /\ n < 5

\* The lines that are quit commands once stripped, whatever their letter case.
QuitLines == {<<"q", "u", "i", "t">>, <<" ", "E", "x", "i", "t", " ">>, <<"Q">>}

\* The lines that are empty or all whitespace.
BlankLines == {<<>>, <<" ", "\t">>}

\* The query each other line stands for.
QueryOf(line) ==
    CASE line = <<"h", "i">> -> Str("hi")
      [] line = <<"q", "u", "i", "t", "s">> -> Str("quits")
      [] line = <<" ", "q", "?", " ">> -> Str("q?")

\* The queries sent for the i-th line read, as places of main.sent.
SentFor(i) == {j \in 1 .. Len(main.sent) : main.sent[j].line = i}

\* run_session has been called for the line just read and has not yet got to
\* handing the query to the runner.
QueryPending == main.pc = "await_answer" /\ rs.pc \in {"create", "get", "queries"} /\ rs.i = 1

\* What C17 says of a quit command and of the one query of another line.
QuitAndQuery(i) ==
    LET line == main.lines[i]
    IN  /\ line \in QuitLines =>
              /\ i = Len(main.lines)
              /\ main.pc = "done"
              /\ rs = NoRunSession
              /\ SentFor(i) = {}
        /\ line \notin QuitLines \cup BlankLines =>
              /\ Cardinality(SentFor(i)) = IF i = Len(main.lines) /\ QueryPending THEN 0 ELSE 1
              /\ \A j \in SentFor(i) :
                    /\ main.sent[j].key = SharedKey
                    /\ main.sent[j].writer = "medical_bill_chatbot"
                    /\ main.sent[j].text = QueryOf(line)

\* C17 as claimed: a line that, stripped, is quit, exit or q in any letter case
\* ends the loop without a query to the chatbot; any other non-blank line does
\* not end the loop and goes to the shared session as exactly one query.
C17_QuitOrOneQuery ==
    \A i \in 1 .. Len(main.lines) :
        /\ QuitAndQuery(i)
        /\ (main.lines[i] \notin QuitLines \cup BlankLines /\ i = Len(main.lines)) =>
              \/ main.pc \in {"await_answer", "prompt"}
              \/ main.pc = "done" /\ main.eof

\* C17 as amended: the same, except that the loop, and the program with it,
\* ends when the query of such a line raises: the exception reaches the
\* handler of main(), which exits with status 1.
C17_QuitOrOneQueryUnlessRaised ==
    \A i \in 1 .. Len(main.lines) :
        /\ QuitAndQuery(i)
        /\ (main.lines[i] \notin QuitLines \cup BlankLines /\ i = Len(main.lines)) =>
              \/ main.pc \in {"await_answer", "prompt"}
              \/ main.pc = "done" /\ main.eof
              \/ /\ main.pc = "exit"
                 /\ main.e.class = "Exception"
                 /\ RunEvents[Len(RunEvents)] = Event("user", QueryOf(main.lines[i]))

\* " q? " went to the chatbot as the one query "q?" and was answered; " Exit "
\* then ended the loop.
C17_Witness ==
    /\ main.pc = "done"
    /\ main.lines = <<(<<" ", "q", "?", " ">>), (<<" ", "E", "x", "i", "t", " ">>)>>
    /\ Cardinality(SentFor(1)) = 1
    /\ SentFor(2) = {}
    /\ RunEvents[Len(RunEvents) - 1] = Event("user", Str("q?"))

\* A step in which main() reads a line at the prompt.
ReadsLine == Len(main'.lines) = Len(main.lines) + 1

\* C18: a blank or whitespace-only line is ignored: reading it appends no turn
\* to any session, invokes no agent (no run_session call, no query, nothing
\* done on the orchestrator) and leaves the loop at the prompt; no query is
\* ever sent for it.
C18_BlankIgnored ==
    /\ [](\A i \in 1 .. Len(main.lines) :
             main.lines[i] \in BlankLines => SentFor(i) = {})
    /\ [][(ReadsLine /\ main'.lines[Len(main'.lines)] \in BlankLines) =>
             /\ sessions' = sessions
             /\ rs = NoRunSession
             /\ rs' = NoRunSession
             /\ main'.sent = main.sent
             /\ main'.acqs = main.acqs
             /\ main.pc = "prompt"
             /\ main'.pc = "prompt"
             /\ UNCHANGED <<monitorVars, runVars>>]_vars

\* A whitespace-only line was read and, at the next prompt, a question, for
\* which run_session has just been called: the session holds the summary and
\* the three follow-up questions with their answers, and nothing else.
C18_Witness ==
    /\ main.lines = <<(<<" ", "\t">>), (<<"h", "i">>)>>
    /\ main.pc = "await_answer"
    /\ rs.pc = "create"
    /\ Len(main.sent) = 4
    /\ Len(RunEvents) = 8

\* Call r was made on a path that is not an existing file, and has returned.
ReturnedNotFound(r) == Returned(r) /\ results[r]["bill_file"] \notin ExistingFiles

\* C19: process_bill on a path that is not an existing file fails with the
\* not-found error before any capability call: no capability is invoked, the
\* stage is called once (no retry), the result is FAILED with an error field
\* and no stage entry, and the event log the result carries is BillExtraction
\* STARTED followed by one FAILED event.
C19_NotFoundFailsFast ==
    \A r \in Runs :
        ReturnedNotFound(r) =>
            /\ Status(r) = "FAILED"
            /\ HasKey(results[r], "error")
            /\ results[r]["error"] = "File not found at: " \o results[r]["bill_file"]
            /\ frame[r].e.class = "FileNotFoundError"
            /\ results[r]["stages"] = <<>>
            /\ OpsAt(r, "capability") = {}
            /\ Cardinality(OpsAt(r, "call")) = 1
            /\ LET log == LogAtReturn(r)
               IN  /\ Len(log) = 2
                   /\ log[1].agent = "BillExtraction" /\ log[1].status = "STARTED"
                   /\ log[2].status = "FAILED"

\* The required credential is absent: unset, or set to the empty string.
CredentialAbsent == env.GOOGLE_API_KEY \in {NoneVal, Str("")}

\* C20: when the required API credential is absent, Config.validate() raises
\* an error naming GOOGLE_API_KEY and the program fails at startup: main() is
\* at its start or has exited on that error, no orchestrator is constructed,
\* no stage runs, no event is logged, and no turn is written to any session.
C20_NoCredentialFailsAtStartup ==
    /\ [](CredentialAbsent =>
            /\ main.pc \in {"start", "exit"}
            /\ main.pc = "exit" =>
                  main.e = Exception("ValueError",
                                     "GOOGLE_API_KEY environment variable not set.")
            /\ main.orchestrator = Unbound
            /\ \A r \in Runs : pc[r] = "idle" /\ hist[r] = <<>>
            /\ execution_log = <<>>
            /\ rs = NoRunSession
            /\ main.sent = <<>>)
    /\ [][CredentialAbsent => sessions' = sessions]_vars

\* The credential is unset, the store holds an earlier run's session, and
\* main() has exited on the error of Config.validate().
C20_Witness ==
    /\ env.GOOGLE_API_KEY = NoneVal
    /\ main.pc = "exit"
    /\ main.e.class = "ValueError"
    /\ main.orchestrator = Unbound
    /\ sessions # <<>>

\* main() has reached the interactive loop after process_bill returned.
InLoopAfterRun ==
    /\ main.pc \in {"prompt", "await_answer", "done"}
    /\ pc[1] = "returned"

\* The stage-by-stage summary of the returned result is among main()'s output.
SummaryPrinted ==
    \E i \in 1 .. Len(main.printed) :
        /\ main.printed[i].kind = "results"
        /\ main.printed[i].status = results[1]["status"]
        /\ Len(main.printed[i].stages) = Len(results[1]["stages"])
        /\ \A j \in 1 .. Len(results[1]["stages"]) :
              main.printed[i].stages[j] =
                  <<results[1]["stages"][j].key, results[1]["stages"][j].status>>

\* The governance report is on standard output: print_report() has written
\* it, or main() has printed a block that holds it.
ReportPrinted ==
    \/ stdout # <<>>
    \/ \E i \in 1 .. Len(main.printed) : main.printed[i].kind = "governance_report"

\* C21: on every run of the program in which process_bill returns a result
\* (COMPLETED or FAILED), the stage-by-stage summary and the governance report
\* are printed before the interactive loop is entered.
C21_SummaryAndReportPrinted ==
    InLoopAfterRun => SummaryPrinted /\ ReportPrinted

\* The duration of the run in progress, from the monitor's two timestamps.
\* The clock never goes back, so an exit timestamp earlier than the entry
\* timestamp was recorded before the run was entered: the run has not ended.
\* (With the two equal, the difference is 0 whichever run the exit belongs to.)
RunDuration ==
    IF Truthy(end_time) /\ end_time.t >= start_time.t
    THEN end_time.t - start_time.t
    ELSE 0

\* C22: for any sequence of start_workflow, end_workflow and generate_report
\* calls on one GoverningAgent, the reported workflow_duration_seconds is the
\* exit timestamp minus the entry timestamp of the same run, hence never
\* negative, and 0 while the run in progress has not ended.
C22_DurationOfSameRun ==
    [][(NewReport /\ HasKey(last_report', "workflow_duration_seconds")) =>
          /\ last_report'["workflow_duration_seconds"] = RunDuration
          /\ last_report'["workflow_duration_seconds"] >= 0]_vars

\* The fan-out members, in the order the orchestrator logs them.
FanOutMembers == <<"DuplicateAuditor", "CodeAuditor", "ChargeExplainer">>

\* The parallel group of call r is in flight: awaited and not settled.
InFlight(r) == pc[r] = "await_parallel"

\* No other call of process_bill is in progress on the orchestrator.
RunsAlone(r) == \A q \in Runs \ {r} : pc[q] \in {"idle", "returned", "escaped"}

\* Place i of a call's own events starts a run of the three members' events
\* of the given status, at three consecutive places of the log.
MemberTriple(own, i, status) ==
    /\ i + 2 <= Len(own)
    /\ \A k \in 0 .. 2 :
          /\ own[i + k] = own[i] + k
          /\ execution_log[own[i + k]].agent = FanOutMembers[k + 1]
          /\ execution_log[own[i + k]].status = status

\* C23: the log is appended only by the orchestrating coroutine.  While the
\* parallel group of a call is in flight the call appends no event, and when no
\* other call is in progress the log does not change at all; so within one run
\* the three STARTED events of the members stand at consecutive places of the
\* log, and so do their three SUCCESS events, and no member's event stands
\* outside such a triple.
C23_FanOutAppendsNothing ==
    /\ [][\A r \in Runs :
            InFlight(r) =>
               /\ OpsAt(r, "log")' = OpsAt(r, "log")
               /\ RunsAlone(r) => execution_log' = execution_log]_vars
    /\ [](\A r \in Runs :
            LET own == OwnEvents(r)
                ev(i) == execution_log[own[i]]
            IN  \A i \in 1 .. Len(own) :
                   \A k \in 1 .. 3 :
                      ev(i).agent = FanOutMembers[k] =>
                         /\ ev(i).status \in {"STARTED", "SUCCESS"}
                         /\ i - k + 1 >= 1
                         /\ MemberTriple(own, i - k + 1, ev(i).status))

\* A call has completed, and another call appended to the log while its
\* parallel group was in flight: its three STARTED events and its three
\* SUCCESS events are contiguous, with the other call's events between them.
C23_Witness ==
    \E r \in Runs :
        /\ Returned(r)
        /\ Status(r) = "COMPLETED"
        /\ LET own == OwnEvents(r)
           IN  /\ Len(own) = 10
               /\ MemberTriple(own, 5, "STARTED")
               /\ MemberTriple(own, 8, "SUCCESS")
               /\ own[8] > own[7] + 1

\* A step in which reset_session(user_id) is called.
ResetStep(user_id) ==
    /\ chatbot.pc = "idle"
    /\ chatbot'.pc = "idle"
    /\ chatbot'.n = chatbot.n
    /\ user_id \in chatbot'.fresh
    /\ chatbot'.old = SetKey(chatbot.old, user_id, UserTurns(sessions, user_id))

\* C24: reset_session(user) starts a fresh conversation for the user: the next
\* chat(user) call without an explicit session id runs under a session that
\* holds none of the turns the user had stored before the reset; the reset
\* deletes no stored turn and leaves the other users' session ids as they are.
C24_ResetStartsFresh ==
    /\ []((chatbot.pc = "await" /\ chatbot.after_reset) =>
             \A i \in 1 .. Len(chatbot.found) :
                chatbot.found[i].author = "user" =>
                   chatbot.found[i].text \notin chatbot.old[chatbot.user_id])
    /\ [][\A user_id \in ChatUsers :
            ResetStep(user_id) =>
               /\ sessions' = sessions
               /\ user_id \notin DOMAIN chatbot'.sessions
               /\ \A other \in (DOMAIN chatbot.sessions) \ {user_id} :
                     /\ other \in DOMAIN chatbot'.sessions
                     /\ chatbot'.sessions[other] = chatbot.sessions[other]]_vars

\* The clock reading a timestamp of the log was formatted from.
TimeOf(timestamp) == CHOOSE t \in 0 .. MaxTime : IsoFormat(t) = timestamp

\* A step in which generate_report() or print_report() has returned something new.
ReadStep == last_report' # last_report \/ stdout' # stdout

\* C25: generate_report() and print_report() are read-only over the monitor:
\* they leave execution_log, start_time and end_time unchanged; a second
\* generate_report() right after a first returns an equal report; the
\* report's execution_timeline is the full log, in chronological order;
\* print_report() shows the 10 most recent entries (none before the workflow
\* has started) and leaves the stored log at its full length.
C25_ReportsReadOnly ==
    /\ [][ReadStep => UNCHANGED monitorVars]_vars
    /\ [][NewReport =>
            GenerateReport(execution_log', start_time', end_time') = last_report']_vars
    /\ [](HasKey(last_report, "execution_timeline") =>
            LET timeline == ReportRead(last_report, execution_log)["execution_timeline"]
            IN  /\ timeline = execution_log
                /\ \A i, j \in 1 .. Len(timeline) :
                      i < j => TimeOf(timeline[i].timestamp) <= TimeOf(timeline[j].timestamp))
    /\ [][stdout' # stdout =>
            /\ stdout'.timeline =
                  IF Truthy(start_time) THEN LastN(execution_log, 10) ELSE <<>>
            /\ Len(stdout'.timeline) <= 10
            /\ Len(execution_log') = Len(execution_log)]_vars

\* Both have been called on a log of 11 events logged at two different times:
\* the report counts 11 events, the print-out shows the last 10, and the log
\* still holds 11.
C25_Witness ==
    /\ Len(execution_log) = 11
    /\ execution_log[1].timestamp # execution_log[11].timestamp
    /\ last_report # NoneVal
    /\ HasKey(last_report, "total_events")
    /\ last_report["total_events"] = 11
    /\ stdout # <<>>
    /\ stdout.total_events = 11
    /\ Len(stdout.timeline) = 10
    /\ stdout.timeline[1] = execution_log[2]

\* The events call r appended itself, in the order it appended them.
OwnLog(r) ==
    LET own == OwnEvents(r)
    IN  [i \in 1 .. Len(own) |-> execution_log[own[i]]]

\* The time between call r's start_workflow() and its end_workflow().
OwnDuration(r) ==
    LET s == CHOOSE i \in OpsAt(r, "start_workflow") : TRUE
        e == CHOOSE i \in OpsAt(r, "end_workflow") : TRUE
    IN  hist[r][e].t - hist[r][s].t

\* C26: when one orchestrator runs process_bill more than once, one call after
\* another or interleaved, the governance report attached to each result
\* counts only the events and the duration of that run: total_events,
\* status_summary and success_rate are those of the events the run logged.
C26_ReportOfOwnRun ==
    \A r \in Runs :
        Returned(r) =>
            LET report == results[r]["governance_report"]
            IN  /\ report.total_events = Len(OwnLog(r))
                /\ report.status_summary = StatusCounts(OwnLog(r))
                /\ report.success_rate = SuccessRate(OwnLog(r))
                /\ report.workflow_duration_seconds = OwnDuration(r)

\* The agents of the given members that have an event of the given status in a log.
MembersWith(log, status) ==
    {log[i].agent : i \in {j \in 1 .. Len(log) :
                              /\ log[j].status = status
                              /\ \E k \in 1 .. 3 : log[j].agent = FanOutMembers[k]}}

AllMembers == {FanOutMembers[k] : k \in 1 .. 3}

\* C27: the three fan-out members are recorded all-or-nothing: in every
\* returned result the log holds SUCCESS events for all three members or for
\* none, and when the parallel group raised all three have a STARTED event,
\* none has a SUCCESS or FAILED event of its own, and every FAILED event is
\* named Orchestrator.
C27_MembersAllOrNothing ==
    \A r \in Runs :
        Returned(r) =>
            LET log == LogAtReturn(r)
            IN  /\ MembersWith(log, "SUCCESS") \in {{}, AllMembers}
                /\ StageRaised(r, "Parallel") =>
                      /\ MembersWith(log, "STARTED") = AllMembers
                      /\ MembersWith(log, "SUCCESS") = {}
                      /\ MembersWith(log, "FAILED") = {}
                      /\ \A i \in 1 .. Len(log) :
                            log[i].status = "FAILED" => log[i].agent = "Orchestrator"

\* The stage keys in pipeline order.
StageOrder == <<"bill_extraction", "charge_extraction", "parallel_analysis">>

\* The agents whose SUCCESS events stand for a stage entry.
AgentsOf(key) ==
    CASE key = "bill_extraction" -> {"BillExtraction"}
      [] key = "charge_extraction" -> {"ChargeExtraction"}
      [] key = "parallel_analysis" -> AllMembers

\* The agents that have a SUCCESS event in a log.
Succeeded(log) == {log[i].agent : i \in {j \in 1 .. Len(log) : log[j].status = "SUCCESS"}}

\* What C28 says of a result, given the log it is read against.
ResultMatchesLog(res, log) ==
    /\ Len(res["stages"]) <= 3
    /\ \A i \in 1 .. Len(res["stages"]) :
          /\ res["stages"][i].key = StageOrder[i]
          /\ res["stages"][i].status = "SUCCESS"
    /\ HasKey(res, "final_output") <=> res["status"] = "COMPLETED"
    /\ HasKey(res, "error") <=> res["status"] = "FAILED"
    /\ (\E i \in 1 .. Len(log) : log[i].status = "FAILED") <=> res["status"] = "FAILED"
    /\ res["status"] = "FAILED" =>
          /\ Cardinality({i \in 1 .. Len(log) : log[i].status = "FAILED"}) = 1
          /\ log[Len(log)].status = "FAILED"
    /\ \A k \in 1 .. 3 :
          (\E i \in 1 .. Len(res["stages"]) : res["stages"][i].key = StageOrder[k])
             <=> AgentsOf(StageOrder[k]) \subseteq Succeeded(log)

\* C28: in every result process_bill returns, the stage entries are a prefix
\* of (bill_extraction, charge_extraction, parallel_analysis), each SUCCESS;
\* final_output is present exactly when the status is COMPLETED and error
\* exactly when it is FAILED; the log holds a FAILED event exactly when the
\* status is FAILED, then exactly one, as its last event; and a stage entry is
\* present exactly when the log holds a SUCCESS event for its agent(s).
C28_ResultMatchesLog ==
    \A r \in Runs : Returned(r) => ResultMatchesLog(results[r], LogAtReturn(r))

\* The summary turns this run of the program has written to the shared session.
SummaryTurns ==
    {i \in 1 .. Len(main.sent) :
        /\ main.sent[i].key = SharedKey
        /\ main.sent[i].text.kind = "fstring"}

\* C29: the summary turn written to the shared session reports the outcome of
\* an actual orchestrator run: a turn with processing status COMPLETED is
\* written only when the configured bill file exists and process_bill has
\* returned a COMPLETED result.
C29_SummaryOfActualRun ==
    \A i \in SummaryTurns :
        main.sent[i].text.status = "COMPLETED" =>
            /\ BillFile \in ExistingFiles
            /\ Returned(1)
            /\ Status(1) = "COMPLETED"

\* Call r has returned COMPLETED as the first run of a fresh orchestrator: the
\* log it returned with holds the events of this call and no others.
FirstRunCompleted(r) ==
    /\ Returned(r)
    /\ Status(r) = "COMPLETED"
    /\ Len(OwnEvents(r)) = Len(LogAtReturn(r))

\* The events of a fully successful run, by agent and status.
SuccessfulRun ==
    <<<<"BillExtraction", "STARTED">>, <<"BillExtraction", "SUCCESS">>,
      <<"ChargeExtraction", "STARTED">>, <<"ChargeExtraction", "SUCCESS">>,
      <<"DuplicateAuditor", "STARTED">>, <<"CodeAuditor", "STARTED">>,
      <<"ChargeExplainer", "STARTED">>,
      <<"DuplicateAuditor", "SUCCESS">>, <<"CodeAuditor", "SUCCESS">>,
      <<"ChargeExplainer", "SUCCESS">>>>

\* C30: a fully successful first run on a fresh orchestrator logs exactly 10
\* events: BillExtraction STARTED and SUCCESS, ChargeExtraction STARTED and
\* SUCCESS, STARTED for DuplicateAuditor, CodeAuditor, ChargeExplainer, then
\* SUCCESS for the same three; its report has total_events 10, agents_executed
\* 5, status_summary STARTED=5 and SUCCESS=5, and success_rate "50.0%".
C30_TenEvents ==
    \A r \in Runs :
        FirstRunCompleted(r) =>
            LET log == LogAtReturn(r)
                report == results[r]["governance_report"]
            IN  /\ Len(log) = 10
                /\ [i \in 1 .. 10 |-> <<log[i].agent, log[i].status>>] = SuccessfulRun
                /\ report.total_events = 10
                /\ report.agents_executed = 5
                /\ report.status_summary = [s \in {"STARTED", "SUCCESS"} |-> 5]
                /\ report.success_rate = "50.0%"

\* A call has completed as the first run of a fresh orchestrator.
C30_Witness ==
    \E r \in Runs :
        /\ FirstRunCompleted(r)
        /\ execution_log[1].agent = "BillExtraction"
        /\ results[r]["governance_report"].total_events = Len(LogAtReturn(r))

=============================================================================
